---- MODULE Spec2Model ----
(***************************************************************************)
(* The OAuth 2.0 / PKCE token broker of the WordPress Reader web app: the  *)
(* file-backed auth router (pending-state registry, session token store,   *)
(* authorization-code store, /authorize, /callback, /token, /validate, the *)
(* access guard and the endpoints behind it), the disk and the restarts of *)
(* the process.                                                            *)
(*                                                                         *)
(* Every handler is split at its await points (upstream fetch, file read,  *)
(* file write): one action is one continuation, run to the next await, so  *)
(* that concurrent requests interleave exactly where the event loop lets   *)
(* them.  A file read or write is atomic at the instant it lands.          *)
(***************************************************************************)
EXTENDS Integers, FiniteSets, Sequences, TLC

(***************************************************************************)
(* Program constants (milliseconds).                                       *)
(***************************************************************************)
StateTTL == 600000
SessionTTL == 3600000
CodeTTL == 600000
SweepInterval == 60000
CACHE_TTL == 300000
JwtTTL == 3600000
RateWindow == 60000
RateLimit == 10

(***************************************************************************)
(* Bounds of the model.                                                    *)
(***************************************************************************)
\* How many instants of the schedule below the clock visits after instant 0.
MaxTicks == 4
\* How many upstream exchanges hand back a body (sessions minted).
MaxSessions == 2
\* How many requests the MCP server sends to a guarded endpoint within one
\* rate window, where the rate limit is not the matter.
MaxPolls == 1

\* Requests arrive at the instants of a fixed schedule: process start; half a
\* sweep period before and after the states and codes created at start expire
\* (after: expired, the next sweep not yet due); half a sweep period before the
\* sessions created at start expire; their expiry instant (a sweep is due then
\* too); and on in half sweep periods.
Quantum == SweepInterval \div 2

Schedule ==
    <<0, StateTTL - Quantum, StateTTL + Quantum, SessionTTL - Quantum, SessionTTL>>

Instant(k) ==
    IF k < Len(Schedule) THEN Schedule[k + 1]
    ELSE Schedule[Len(Schedule)] + (k + 1 - Len(Schedule)) * Quantum

Req == {1, 2}
States == {"s1", "s2"}
Verifiers == {"v1", "v2"}
NoVal == "undefined"
BogusCode == 0

VARIABLES
    tick,           \* index of the current instant in the schedule
    now,            \* Date.now()
    nextSweep,      \* the instant the setInterval sweep is next due
    pendingStates,  \* Map state -> {code_challenge, expires_at}
    tokensFile,     \* .wp-auth-tokens.json: id -> MCPToken
    codesFile,      \* .wp-auth-codes.json: code -> {token_id, code_challenge, expires_at}
    nextId,         \* crypto.randomUUID(): the next fresh session id
    nextCode,       \* crypto.randomBytes(32): the next fresh authorization code
    req,            \* the handlers in flight: one record per invocation
    out,            \* the response sent by the step just taken (NoOut: none)
    issued,         \* the bearer credentials (JWT payloads) /token has returned
    redeemed,       \* history: the codes whose successful redemption has returned
    consumed,       \* history: the states a callback has completed with, and
                    \* that no /authorize has registered since
    mcpSharedSecret,\* process.env.MCP_SHARED_SECRET (NoVal: not configured)
    mcpRateLimit,   \* (global as any).mcpRateLimit: key -> timestamps of admitted requests
    unreadable,     \* the store files whose read fails (missing, no permission, not JSON)
    bootedAt,       \* history: when the running process was started
    admitted,       \* history: per client address, the requests the guard has let
                    \* through within the trailing RateWindow (when, with which
                    \* header, whether into a window that had just emptied)
    disableConfidentialityCheck,
                    \* process.env.DISABLE_CONFIDENTIALITY_CHECK of the MCP server
    blogStickersCache,
                    \* Map siteIdOrDomain -> {stickers, timestamp}
    call,           \* the tool call of the MCP server: in flight, or as it ended
    webApp,         \* the in-memory router of src/web-app, served the same requests
    mcpAuth         \* the MCP server's token cache file and its getBackgroundToken call

vars ==
    <<tick, now, nextSweep, pendingStates, tokensFile, codesFile, nextId, nextCode,
      req, out, issued, redeemed, consumed, mcpSharedSecret, mcpRateLimit, unreadable,
      bootedAt, admitted, disableConfidentialityCheck, blogStickersCache, call,
      webApp, mcpAuth>>

\* What only the access guard of the MCP endpoints touches.
guardVars == <<mcpSharedSecret, mcpRateLimit, admitted>>

\* What only the surroundings of the process change: the state of the disk, the
\* process being restarted.
envVars ==
    <<unreadable, bootedAt, disableConfidentialityCheck, blogStickersCache, call,
      webApp, mcpAuth>>

\* What the tool handlers of the MCP server touch.
toolVars == <<disableConfidentialityCheck, blogStickersCache, call>>

\* What the programs beside the file-backed router touch.
peerVars == <<webApp, mcpAuth>>

EmptyMap == [x \in {} |-> 0]

\* A faulty set(), for comparison: it keeps the entry a key already has.
PutIfAbsent(m, k, v) == [x \in DOMAIN m \cup {k} |-> IF x \in DOMAIN m THEN m[x] ELSE v]

Put(m, k, v) == [x \in DOMAIN m \cup {k} |-> IF x = k THEN v ELSE m[x]]

\* A faulty delete(), for comparison: it removes nothing.
DelNothing(m, k) == m

Del(m, k) == [x \in DOMAIN m \ {k} |-> m[x]]

\* A faulty hash, for comparison: the verifier itself, as with the plain method.
Unhashed(v) == v

\* crypto.createHash('sha256').update(v).digest('base64url'): injective on the
\* verifiers of the model, and never the verifier itself.
S256(v) == CASE v = "v1" -> "h1" [] v = "v2" -> "h2" [] OTHER -> "h?"

Challenges == {S256(v) : v \in Verifiers}

\* The upstream token endpoint issues a distinct access token (and names the
\* blog) on every exchange.
UpstreamToken(n) == IF n = 1 THEN "tokA" ELSE IF n = 2 THEN "tokB" ELSE "tokC"

BlogOf(t) == IF t = NoVal THEN NoVal ELSE "blog42"

NoStateData == [code_challenge |-> NoVal, expires_at |-> 0]
NoToken == [id |-> 0, wordpress_token |-> NoVal, expires_at |-> 0, blog_id |-> NoVal]
NoCodeData == [token_id |-> 0, code_challenge |-> NoVal, expires_at |-> 0]
NoJwt == [sub |-> 0, blog_id |-> NoVal, exp |-> 0, signed |-> FALSE]
NoResp ==
    [status |-> 0, body |-> "", sub |-> 0, blog_id |-> NoVal, exp |-> 0, code |-> 0,
     wp |-> NoVal, states |-> {}, state |-> NoVal]

Resp(status, body) == [NoResp EXCEPT !.status = status, !.body = body]

IdleReq ==
    [op |-> "none", pc |-> "idle", state |-> NoVal, challenge |-> NoVal,
     method |-> NoVal, code |-> BogusCode, verifier |-> NoVal,
     stateData |-> NoStateData,
     tok |-> NoToken, authCode |-> BogusCode, acd |-> NoCodeData,
     bearer |-> NoJwt, snap |-> EmptyMap, resp |-> NoResp, late |-> FALSE,
     ip |-> NoVal, secret |-> NoVal]

NoOut == IdleReq

\* No tool has been called.
NoCall ==
    [tool |-> NoVal, arg |-> NoVal, pc |-> "idle", site |-> NoVal, fetched |-> NoVal,
     reported |-> NoVal, sent |-> FALSE, result |-> NoVal]

\* The response `resp` to the request of handler record q: the record as it
\* stands when the response is sent.
Sent(q, resp) == [q EXCEPT !.pc = "sent", !.snap = EmptyMap, !.resp = resp]

\* A new request takes the first free of the handler records R.
Free(R, r) == r \in R /\ req[r].pc = "idle" /\ \A o \in R : o < r => req[o].pc # "idle"

(***************************************************************************)
(* Faulty variants of the router's checks: each property below is also     *)
(* tested against the router with one check replaced by its variant.       *)
(***************************************************************************)
\* The verifier is not compared with the stored challenge.
PkceSkipped(code_verifier, code_challenge) == TRUE

\* Any state passes the state check.
AnyStateKnown(state) == TRUE

\* The handler forgets to delete the pending state.
ConsumeNothing(states, state) == states

\* Only the presence of the challenge is checked, not the method.
ChallengePresent(code_challenge, method) == code_challenge # NoVal

\* An entry counts as live at the very instant it expires.
LiveAtExpiry(entry) == entry.expires_at >= now

\* A guard that falls back to a well-known secret when none is configured.
DefaultSecret(configured) == IF configured # NoVal THEN configured ELSE "guess"

\* A guard that takes every caller for a local one.
AnyoneLocal(clientIP) == TRUE

\* A window that still counts a request exactly RateWindow old.
InWindowInclusive(time) == now - time <= RateWindow

\* A window that never closes, for comparison.
NeverStale(time) == TRUE

\* A limiter that turns away only past the limit.
RateLimitedLate(recentRequests) == Len(recentRequests) > RateLimit

\* A deleteAuthCode whose save keeps only what is still in the file.
DeleteMerged(onDisk, authCodes) ==
    [k \in DOMAIN authCodes \cap DOMAIN onDisk |-> authCodes[k]]

\* Stores kept in the memory of the process: a new process finds none.
InMemory(content) == EmptyMap

\* A load that falls back on what the file held when it cannot be read.
LoadedOrStale(file, m) == [k \in {k \in DOMAIN m : m[k].expires_at > now} |-> m[k]]

\* Loads that take an entry within ten minutes of its expiry for expired.
LiveWithMargin(entry) == entry.expires_at > now + CodeTTL

\* Loads that find no entry valid.
NothingValid(m) == EmptyMap

\* A /current-token that stops at the first unexpired session it meets.
FirstUsable(tokens) ==
    LET usable == {id \in DOMAIN tokens : tokens[id].expires_at > now} IN
    IF usable = {} THEN NoToken
    ELSE tokens[CHOOSE id \in usable : \A o \in usable : id <= o]

\* A /validate that decodes the credential without verifying its signature.
JwtUnverified(jwt) == now < jwt.exp

\* The in-memory router before any request: its three Maps are empty.  `turn`
\* says which router is served next, `last` holds the request last served to
\* this one and the status it answered.
NoServed ==
    [op |-> "none", state |-> NoVal, challenge |-> NoVal, method |-> NoVal,
     grant |-> NoVal, code |-> BogusCode, verifier |-> NoVal, bearer |-> NoJwt,
     outcome |-> NoVal, browser |-> FALSE, status |-> 0]

InitWebApp ==
    [pendingStates |-> EmptyMap, tokens |-> EmptyMap, authCodes |-> EmptyMap,
     nextId |-> 1, nextCode |-> 1, issued |-> {}, turn |-> "web", last |-> NoServed]

\* No cache file (or one that does not parse): loadCachedToken returns null.
NoCache == [wordpress_token |-> NoVal, expires_at |-> 0, parses |-> FALSE]

\* No call of getBackgroundToken yet.  A call records the MCP_SHARED_SECRET of
\* its process, when it began and the cache it found, whether the auth server
\* was found running, whether /current-token was requested and what it
\* answered, whether the cache file was written, and what the call returned
\* (NoVal: null).
InitMcpAuth ==
    [cache |-> NoCache, pc |-> "idle", secret |-> NoVal, at |-> 0, before |-> NoCache,
     up |-> FALSE, asked |-> FALSE, answer |-> NoVal, tokenData |-> NoCache,
     saved |-> FALSE, result |-> NoVal]

InitPeers == webApp = InitWebApp /\ mcpAuth = InitMcpAuth

InitTools(disabled) ==
    /\ disableConfidentialityCheck = disabled
    /\ blogStickersCache = EmptyMap
    /\ call = NoCall

InitEnv(secret) ==
    /\ InitTools(NoVal)
    /\ InitPeers
    /\ tick = 0
    /\ now = 0
    /\ nextSweep = SweepInterval
    /\ pendingStates = EmptyMap
    /\ tokensFile = EmptyMap
    /\ codesFile = EmptyMap
    /\ nextId = 1
    /\ nextCode = 1
    /\ req = [r \in Req |-> IdleReq]
    /\ out = NoOut
    /\ issued = {}
    /\ redeemed = {}
    /\ consumed = {}
    /\ mcpSharedSecret = secret
    /\ mcpRateLimit = EmptyMap
    /\ admitted = EmptyMap
    /\ unreadable = {}
    /\ bootedAt = 0

\* The deployment setup.js prepares: MCP_SHARED_SECRET is in the environment.
Init == InitEnv("secret")

\* A faulty sweep, for comparison: it clears the registry.
SweepKeepsNothing(data, t) == FALSE

(***************************************************************************)
(* Time and the periodic sweep.                                            *)
(***************************************************************************)
\* The setInterval callback run at time t keeps the entries not yet expired.
SweepKeeps(data, t) == ~(data.expires_at < t)

Swept(states, t) == [s \in {s \in DOMAIN states : SweepKeeps(states[s], t)} |-> states[s]]

\* The last sweep due strictly before time t, given the next one is due at `due`.
LastSweepBefore(due, t) == due + ((t - 1 - due) \div SweepInterval) * SweepInterval

\* The admissions at most RateWindow old at time t.
Trailing(log, t) ==
    [ip \in DOMAIN log |-> SelectSeq(log[ip], LAMBDA a : t - a.at < RateWindow)]

\* The clock moves to the next instant of the schedule while every handler in
\* flight is at one of the awaits `waiting`, and once a sweep due at the
\* current instant has run; the sweeps due on the way run on the way.
TickWhen(waiting) ==
    /\ tick < MaxTicks
    /\ \A r \in Req : req[r].pc \in waiting
    /\ now < nextSweep
    /\ tick' = tick + 1
    /\ now' = Instant(tick + 1)
    /\ IF nextSweep < now'
       THEN /\ pendingStates' = Swept(pendingStates, LastSweepBefore(nextSweep, now'))
            /\ nextSweep' = LastSweepBefore(nextSweep, now') + SweepInterval
       ELSE UNCHANGED <<pendingStates, nextSweep>>
    /\ out' = NoOut
    /\ admitted' = Trailing(admitted, now')
    /\ UNCHANGED <<tokensFile, codesFile, nextId, nextCode, req, issued, redeemed,
                   consumed, mcpSharedSecret, mcpRateLimit, envVars>>

\* A request takes milliseconds and the instants lie half a minute and more
\* apart: the clock moves once the handlers in flight have returned, or wait
\* for an upstream that stays silent.
Tick == TickWhen({"idle", "hung"})

\* The sweep timer fires at its due instant.
Sweep ==
    /\ now >= nextSweep
    /\ pendingStates' = Swept(pendingStates, now)
    /\ nextSweep' = nextSweep + SweepInterval
    /\ out' = NoOut
    /\ UNCHANGED <<guardVars, envVars, tick, now, tokensFile, codesFile, nextId,
                   nextCode, req, issued, redeemed, consumed>>

(***************************************************************************)
(* The persistent stores.                                                  *)
(***************************************************************************)
\* The expiry filter of loadTokens / loadAuthCodes.
Live(entry) == entry.expires_at > now

ValidEntries(m) == [k \in {k \in DOMAIN m : Live(m[k])} |-> m[k]]

\* "Save cleaned ... back if any were removed".
NeedsClean(m) == Cardinality(DOMAIN ValidEntries(m)) # Cardinality(DOMAIN m)

\* fs.readFile or JSON.parse throws for the file.
ReadFails(file) == file \in unreadable

\* What loadTokens / loadAuthCodes return for a file of content m: the catch
\* block returns {}.
Loaded(file, m) == IF ReadFails(file) THEN EmptyMap ELSE ValidEntries(m)

\* Whether they write the cleaned content back: not from the catch block.
LoadCleans(file, m) == ~ReadFails(file) /\ NeedsClean(m)

(***************************************************************************)
(* Handler steps.                                                          *)
(***************************************************************************)
\* Handler r answers request q with `resp` and returns.
Answer(r, q, resp) ==
    /\ req' = [req EXCEPT ![r] = IdleReq]
    /\ out' = Sent(q, resp)

\* A request is answered in the continuation it arrives in.
AnswerAtOnce(q, resp) ==
    /\ out' = Sent(q, resp)
    /\ UNCHANGED req

\* Handler r runs to its next await, left with record q, silently.
Await(r, q) ==
    /\ req' = [req EXCEPT ![r] = q]
    /\ out' = NoOut

(***************************************************************************)
(* GET /authorize                                                          *)
(***************************************************************************)
PkceParamsOk(code_challenge, method) == ~(code_challenge = NoVal \/ method # "S256")

\* res.redirect to the upstream authorize URL, whose query carries `state`.
AuthorizeRedirect(state) == [Resp(302, "upstream authorize") EXCEPT !.state = state]

Authorize(code_challenge, method, state) ==
    LET q == [IdleReq EXCEPT !.op = "authorize", !.state = state,
                             !.challenge = code_challenge, !.method = method] IN
    /\ IF ~PkceParamsOk(code_challenge, method)
       THEN /\ AnswerAtOnce(q, Resp(400, "PKCE required"))
            /\ UNCHANGED <<pendingStates, consumed>>
       ELSE /\ pendingStates' = Put(pendingStates, state,
                                    [code_challenge |-> code_challenge,
                                     expires_at |-> now + StateTTL])
            /\ AnswerAtOnce(q, AuthorizeRedirect(state))
            /\ consumed' = consumed \ {state}
    /\ UNCHANGED <<guardVars, envVars, tick, now, nextSweep, tokensFile, codesFile,
                   nextId, nextCode, issued, redeemed>>

(***************************************************************************)
(* GET /callback                                                           *)
(***************************************************************************)
\* pendingStates.get(state): undefined for a key the map does not hold.
Get(states, state) == IF state \in DOMAIN states THEN states[state] ELSE NoStateData

\* "if (!stateData)" is not taken.
StateKnown(state) == Get(pendingStates, state) # NoStateData

\* pendingStates.delete(state) at the end of the handler.
Consume(states, state) == Del(states, state)

\* A faulty response, for comparison: every client gets the browser page.
PageForAll(q, browser) == [Resp(200, "success page") EXCEPT !.code = q.authCode]

\* The response of the try block once the session and the code are stored: the
\* browser page reads mcpToken.wordpress_token.substring, which throws on an
\* undefined token and lands in the catch block.
CallbackResponse(q, browser) ==
    IF browser
    THEN IF q.tok.wordpress_token = NoVal
         THEN Resp(500, "Authentication failed")
         ELSE [Resp(200, "success page") EXCEPT !.code = q.authCode]
    ELSE [Resp(302, "mcp://auth/callback") EXCEPT !.code = q.authCode]

CallbackStart(R, state) ==
    LET q == [IdleReq EXCEPT !.op = "callback", !.state = state] IN
    /\ IF ~StateKnown(state)
       THEN AnswerAtOnce(q, [Resp(400, "Invalid State Error")
                               EXCEPT !.states = DOMAIN pendingStates])
       ELSE \E r \in R :
               /\ Free(R, r)
               /\ Await(r, [q EXCEPT !.pc = "fetch",
                                      !.stateData = Get(pendingStates, state)])
    /\ UNCHANGED <<guardVars, envVars, tick, now, nextSweep, pendingStates, tokensFile,
                   codesFile, nextId, nextCode, issued, redeemed, consumed>>

\* What the awaited upstream exchange hands to the handler: a rejected fetch or an
\* unparsable body throws; any parsed JSON body, the error body of a non-2xx
\* answer included, is used as TokenInfo.
UpstreamThrows(outcome) == outcome \in {"neterr", "badjson"}

TokenInfoOf(outcome, t) ==
    IF outcome = "ok"
    THEN [access_token |-> t, blog_id |-> BlogOf(t)]
    ELSE [access_token |-> NoVal, blog_id |-> NoVal]

CallbackFetch(r, outcome) ==
    LET q == req[r] IN
    /\ q.op = "callback" /\ q.pc = "fetch"
    /\ IF UpstreamThrows(outcome)
       THEN /\ Answer(r, q, Resp(500, "Authentication failed"))
            /\ pendingStates' = Consume(pendingStates, q.state)
            /\ consumed' = consumed \cup {q.state}
            /\ UNCHANGED nextId
       ELSE /\ nextId <= MaxSessions
            /\ LET tokenData == TokenInfoOf(outcome, UpstreamToken(nextId)) IN
               Await(r, [q EXCEPT !.pc = "stRead",
                                  !.tok = [id |-> nextId,
                                           wordpress_token |-> tokenData.access_token,
                                           expires_at |-> now + SessionTTL,
                                           blog_id |-> tokenData.blog_id]])
            /\ nextId' = nextId + 1
            /\ UNCHANGED <<pendingStates, consumed>>
    /\ UNCHANGED <<guardVars, envVars, tick, now, nextSweep, tokensFile, codesFile,
                   nextCode, issued, redeemed>>

\* The upstream accepts the connection and never answers: the fetch carries no
\* timeout and no abort signal, so its promise stays pending and no
\* continuation of this handler is ever scheduled again.
CallbackFetchHangs(r) ==
    LET q == req[r] IN
    /\ q.op = "callback" /\ q.pc = "fetch"
    /\ Await(r, [q EXCEPT !.pc = "hung"])
    /\ UNCHANGED <<guardVars, envVars, tick, now, nextSweep, pendingStates, tokensFile,
                   codesFile, nextId, nextCode, issued, redeemed, consumed>>

\* storeToken: loadTokens' read lands.
CallbackStoreTokenRead(r) ==
    LET q == req[r]
        valid == Loaded("tokens", tokensFile) IN
    /\ q.op = "callback" /\ q.pc = "stRead"
    /\ IF LoadCleans("tokens", tokensFile)
       THEN Await(r, [q EXCEPT !.pc = "stClean", !.snap = valid])
       ELSE Await(r, [q EXCEPT !.pc = "stWrite", !.snap = Put(valid, q.tok.id, q.tok)])
    /\ UNCHANGED <<guardVars, envVars, tick, now, nextSweep, pendingStates, tokensFile,
                   codesFile, nextId, nextCode, issued, redeemed, consumed>>

\* storeToken: loadTokens' clean-up write lands.
CallbackStoreTokenClean(r) ==
    LET q == req[r] IN
    /\ q.op = "callback" /\ q.pc = "stClean"
    /\ tokensFile' = q.snap
    /\ Await(r, [q EXCEPT !.pc = "stWrite", !.snap = Put(q.snap, q.tok.id, q.tok)])
    /\ UNCHANGED <<guardVars, envVars, tick, now, nextSweep, pendingStates, codesFile,
                   nextId, nextCode, issued, redeemed, consumed>>

\* storeToken: saveTokens' write lands; the handler mints the authorization code
\* and calls storeAuthCode.
CallbackStoreTokenWrite(r) ==
    LET q == req[r] IN
    /\ q.op = "callback" /\ q.pc = "stWrite"
    /\ tokensFile' = q.snap
    /\ Await(r, [q EXCEPT !.pc = "acRead", !.snap = EmptyMap, !.authCode = nextCode])
    /\ nextCode' = nextCode + 1
    /\ UNCHANGED <<guardVars, envVars, tick, now, nextSweep, pendingStates, codesFile,
                   nextId, issued, redeemed, consumed>>

\* A faulty storeAuthCode, for comparison: the code lives as long as a session.
LongLivedCode(q) ==
    [token_id |-> q.tok.id, code_challenge |-> q.stateData.code_challenge,
     expires_at |-> now + SessionTTL]

NewCodeData(q) ==
    [token_id |-> q.tok.id, code_challenge |-> q.stateData.code_challenge,
     expires_at |-> now + CodeTTL]

\* storeAuthCode: loadAuthCodes' read lands.
CallbackStoreCodeRead(r) ==
    LET q == req[r]
        valid == Loaded("codes", codesFile) IN
    /\ q.op = "callback" /\ q.pc = "acRead"
    /\ IF LoadCleans("codes", codesFile)
       THEN Await(r, [q EXCEPT !.pc = "acClean", !.snap = valid])
       ELSE Await(r, [q EXCEPT !.pc = "acWrite",
                               !.snap = Put(valid, q.authCode, NewCodeData(q))])
    /\ UNCHANGED <<guardVars, envVars, tick, now, nextSweep, pendingStates, tokensFile,
                   codesFile, nextId, nextCode, issued, redeemed, consumed>>

\* storeAuthCode: loadAuthCodes' clean-up write lands.
CallbackStoreCodeClean(r) ==
    LET q == req[r] IN
    /\ q.op = "callback" /\ q.pc = "acClean"
    /\ codesFile' = q.snap
    /\ Await(r, [q EXCEPT !.pc = "acWrite",
                          !.snap = Put(q.snap, q.authCode, NewCodeData(q))])
    /\ UNCHANGED <<guardVars, envVars, tick, now, nextSweep, pendingStates, tokensFile,
                   nextId, nextCode, issued, redeemed, consumed>>

\* storeAuthCode: saveAuthCodes' write lands; the handler answers (a browser's
\* User-Agent gets the page, any other the mcp:// redirect) and deletes the
\* pending state.
CallbackStoreCodeWrite(r, browser) ==
    LET q == req[r] IN
    /\ q.op = "callback" /\ q.pc = "acWrite"
    /\ codesFile' = q.snap
    /\ Answer(r, q, CallbackResponse(q, browser))
    /\ pendingStates' = Consume(pendingStates, q.state)
    /\ consumed' = consumed \cup {q.state}
    /\ UNCHANGED <<guardVars, envVars, tick, now, nextSweep, tokensFile, nextId,
                   nextCode, issued, redeemed>>

(***************************************************************************)
(* POST /token                                                             *)
(***************************************************************************)
\* The PKCE check: the challenge recomputed from code_verifier against the one
\* stored with the code.
PkceMatches(code_verifier, code_challenge) == S256(code_verifier) = code_challenge

\* jwt.sign({sub, blog_id}, JWT_SECRET, {expiresIn: '1h'}) inside the 200 answer.
TokenResponse(mcpToken) ==
    [Resp(200, "access_token") EXCEPT !.sub = mcpToken.id, !.blog_id = mcpToken.blog_id,
                                      !.exp = now + JwtTTL]

\* The payload of the JWT inside that answer.
JwtOf(resp) == [sub |-> resp.sub, blog_id |-> resp.blog_id, exp |-> resp.exp, signed |-> TRUE]

TokenStart(R, grant_type, code, code_verifier) ==
    LET q == [IdleReq EXCEPT !.op = "token", !.code = code, !.verifier = code_verifier,
                             !.late = code \in redeemed] IN
    /\ IF grant_type # "authorization_code"
       THEN AnswerAtOnce(q, Resp(400, "unsupported_grant_type"))
       ELSE \E r \in R : Free(R, r) /\ Await(r, [q EXCEPT !.pc = "gaRead"])
    /\ UNCHANGED <<guardVars, envVars, tick, now, nextSweep, pendingStates, tokensFile,
                   codesFile, nextId, nextCode, issued, redeemed, consumed>>

\* The handler from the return of getAuthCode to its next await (getToken).
\* crypto's update(undefined) throws, which the catch block answers with 500.
TokenAfterAuthCode(r, authCodes) ==
    LET q == req[r] IN
    IF q.code \notin DOMAIN authCodes
    THEN Answer(r, q, Resp(400, "invalid_grant"))
    ELSE LET found == [q EXCEPT !.acd = authCodes[q.code], !.snap = EmptyMap] IN
         IF q.verifier = NoVal
         THEN Answer(r, found, Resp(500, "server_error"))
         ELSE IF ~PkceMatches(q.verifier, found.acd.code_challenge)
         THEN Answer(r, found, Resp(400, "invalid_grant"))
         ELSE Await(r, [found EXCEPT !.pc = "gtRead"])

\* getAuthCode: loadAuthCodes' read lands.
TokenGetAuthCodeRead(r) ==
    LET q == req[r]
        valid == Loaded("codes", codesFile) IN
    /\ q.op = "token" /\ q.pc = "gaRead"
    /\ IF LoadCleans("codes", codesFile)
       THEN Await(r, [q EXCEPT !.pc = "gaClean", !.snap = valid])
       ELSE TokenAfterAuthCode(r, valid)
    /\ UNCHANGED <<guardVars, envVars, tick, now, nextSweep, pendingStates, tokensFile,
                   codesFile, nextId, nextCode, issued, redeemed, consumed>>

\* getAuthCode: loadAuthCodes' clean-up write lands.
TokenGetAuthCodeClean(r) ==
    LET q == req[r] IN
    /\ q.op = "token" /\ q.pc = "gaClean"
    /\ codesFile' = q.snap
    /\ TokenAfterAuthCode(r, q.snap)
    /\ UNCHANGED <<guardVars, envVars, tick, now, nextSweep, pendingStates, tokensFile,
                   nextId, nextCode, issued, redeemed, consumed>>

\* The handler from the return of getToken on: the answer is sent before
\* deleteAuthCode is awaited.
TokenAfterGetToken(r, tokens) ==
    LET q == req[r] IN
    IF q.acd.token_id \notin DOMAIN tokens
    THEN /\ Answer(r, [q EXCEPT !.snap = EmptyMap], Resp(400, "invalid_grant"))
         /\ UNCHANGED issued
    ELSE LET mcpToken == tokens[q.acd.token_id]
             resp == TokenResponse(mcpToken)
             got == [q EXCEPT !.tok = mcpToken, !.snap = EmptyMap, !.resp = resp] IN
         /\ req' = [req EXCEPT ![r] = [got EXCEPT !.pc = "daRead"]]
         /\ out' = Sent(got, resp)
         /\ issued' = issued \cup {JwtOf(resp)}

\* getToken: loadTokens' read lands.
TokenGetTokenRead(r) ==
    LET q == req[r]
        valid == Loaded("tokens", tokensFile) IN
    /\ q.op = "token" /\ q.pc = "gtRead"
    /\ IF LoadCleans("tokens", tokensFile)
       THEN Await(r, [q EXCEPT !.pc = "gtClean", !.snap = valid]) /\ UNCHANGED issued
       ELSE TokenAfterGetToken(r, valid)
    /\ UNCHANGED <<guardVars, envVars, tick, now, nextSweep, pendingStates, tokensFile,
                   codesFile, nextId, nextCode, redeemed, consumed>>

\* getToken: loadTokens' clean-up write lands.
TokenGetTokenClean(r) ==
    LET q == req[r] IN
    /\ q.op = "token" /\ q.pc = "gtClean"
    /\ tokensFile' = q.snap
    /\ TokenAfterGetToken(r, q.snap)
    /\ UNCHANGED <<guardVars, envVars, tick, now, nextSweep, pendingStates, codesFile,
                   nextId, nextCode, redeemed, consumed>>

\* deleteAuthCode: loadAuthCodes' read lands.
TokenDeleteCodeRead(r) ==
    LET q == req[r]
        valid == Loaded("codes", codesFile) IN
    /\ q.op = "token" /\ q.pc = "daRead"
    /\ IF LoadCleans("codes", codesFile)
       THEN Await(r, [q EXCEPT !.pc = "daClean", !.snap = valid])
       ELSE Await(r, [q EXCEPT !.pc = "daWrite", !.snap = Del(valid, q.code)])
    /\ UNCHANGED <<guardVars, envVars, tick, now, nextSweep, pendingStates, tokensFile,
                   codesFile, nextId, nextCode, issued, redeemed, consumed>>

\* deleteAuthCode: loadAuthCodes' clean-up write lands.
TokenDeleteCodeClean(r) ==
    LET q == req[r] IN
    /\ q.op = "token" /\ q.pc = "daClean"
    /\ codesFile' = q.snap
    /\ Await(r, [q EXCEPT !.pc = "daWrite", !.snap = Del(q.snap, q.code)])
    /\ UNCHANGED <<guardVars, envVars, tick, now, nextSweep, pendingStates, tokensFile,
                   nextId, nextCode, issued, redeemed, consumed>>

\* What deleteAuthCode's saveAuthCodes leaves in the file holding onDisk:
\* fs.writeFile replaces the content with the codes the handler holds.
DeleteSaved(onDisk, authCodes) == authCodes

\* deleteAuthCode: saveAuthCodes' write lands; the handler returns.
TokenDeleteCodeWrite(r) ==
    LET q == req[r] IN
    /\ q.op = "token" /\ q.pc = "daWrite"
    /\ codesFile' = DeleteSaved(codesFile, q.snap)
    /\ Await(r, IdleReq)
    /\ redeemed' = redeemed \cup {q.code}
    /\ UNCHANGED <<guardVars, envVars, tick, now, nextSweep, pendingStates, tokensFile,
                   nextId, nextCode, issued, consumed>>

(***************************************************************************)
(* GET /validate                                                           *)
(***************************************************************************)
\* jwt.verify: the signature is the server's and exp lies ahead.
JwtVerifies(jwt) == jwt.signed /\ now < jwt.exp

\* The handler's own test after getToken.
SessionUsable(tokens, id) == id \in DOMAIN tokens /\ ~(tokens[id].expires_at < now)

\* The answers that carry the upstream token of session mcpToken.
UpstreamTokenResponse(body, mcpToken) ==
    [Resp(200, body) EXCEPT !.wp = mcpToken.wordpress_token,
                            !.blog_id = mcpToken.blog_id,
                            !.exp = mcpToken.expires_at]

\* `bearer` is NoJwt for a request without a Bearer header, else the payload and
\* signature of the JWT presented.
ValidateStart(R, bearer) ==
    LET q == [IdleReq EXCEPT !.op = "validate", !.bearer = bearer] IN
    /\ IF bearer = NoJwt
       THEN AnswerAtOnce(q, Resp(401, "unauthorized"))
       ELSE IF ~JwtVerifies(bearer)
       THEN AnswerAtOnce(q, Resp(401, "invalid_token"))
       ELSE \E r \in R : Free(R, r) /\ Await(r, [q EXCEPT !.pc = "vRead"])
    /\ UNCHANGED <<guardVars, envVars, tick, now, nextSweep, pendingStates, tokensFile,
                   codesFile, nextId, nextCode, issued, redeemed, consumed>>

ValidateAfterGetToken(r, tokens) ==
    LET q == [req[r] EXCEPT !.snap = EmptyMap] IN
    IF ~SessionUsable(tokens, q.bearer.sub)
    THEN Answer(r, q, Resp(401, "token_expired"))
    ELSE LET mcpToken == tokens[q.bearer.sub] IN
         Answer(r, [q EXCEPT !.tok = mcpToken], UpstreamTokenResponse("valid", mcpToken))

\* getToken: loadTokens' read lands.
ValidateGetTokenRead(r) ==
    LET q == req[r]
        valid == Loaded("tokens", tokensFile) IN
    /\ q.op = "validate" /\ q.pc = "vRead"
    /\ IF LoadCleans("tokens", tokensFile)
       THEN Await(r, [q EXCEPT !.pc = "vClean", !.snap = valid])
       ELSE ValidateAfterGetToken(r, valid)
    /\ UNCHANGED <<guardVars, envVars, tick, now, nextSweep, pendingStates, tokensFile,
                   codesFile, nextId, nextCode, issued, redeemed, consumed>>

\* getToken: loadTokens' clean-up write lands.
ValidateGetTokenClean(r) ==
    LET q == req[r] IN
    /\ q.op = "validate" /\ q.pc = "vClean"
    /\ tokensFile' = q.snap
    /\ ValidateAfterGetToken(r, q.snap)
    /\ UNCHANGED <<guardVars, envVars, tick, now, nextSweep, pendingStates, codesFile,
                   nextId, nextCode, issued, redeemed, consumed>>

\* validateToken of the MCP server: what it makes of the /validate response
\* (`fetched` is FALSE when fetch or response.json() threw).
InvalidResult == [valid |-> FALSE, wordpress_token |-> NoVal, user_info |-> NoVal]
ValidateTokenResult(fetched, resp) ==
    IF ~fetched THEN InvalidResult
    ELSE IF resp.status \notin 200 .. 299 THEN InvalidResult
    ELSE [valid |-> resp.body = "valid", wordpress_token |-> resp.wp,
          user_info |-> resp.blog_id]

(***************************************************************************)
(* GET /wordpress-token/:auth_code (the route handler, entered once the    *)
(* validateMCPAccess middleware has called next())                         *)
(***************************************************************************)
WordpressTokenStart(R, auth_code) ==
    LET q == [IdleReq EXCEPT !.op = "wordpress-token", !.code = auth_code] IN
    /\ \E r \in R : Free(R, r) /\ Await(r, [q EXCEPT !.pc = "wcRead"])
    /\ UNCHANGED <<mcpSharedSecret, envVars, tick, now, nextSweep, pendingStates,
                   tokensFile, codesFile, nextId, nextCode, issued, redeemed, consumed>>

WordpressTokenAfterAuthCode(r, authCodes) ==
    LET q == [req[r] EXCEPT !.snap = EmptyMap] IN
    IF q.code \notin DOMAIN authCodes
    THEN Answer(r, q, Resp(404, "Authorization code not found"))
    ELSE Await(r, [q EXCEPT !.pc = "wtRead", !.acd = authCodes[q.code]])

\* getAuthCode: loadAuthCodes' read lands.
WordpressTokenGetAuthCodeRead(r) ==
    LET q == req[r]
        valid == Loaded("codes", codesFile) IN
    /\ q.op = "wordpress-token" /\ q.pc = "wcRead"
    /\ IF LoadCleans("codes", codesFile)
       THEN Await(r, [q EXCEPT !.pc = "wcClean", !.snap = valid])
       ELSE WordpressTokenAfterAuthCode(r, valid)
    /\ UNCHANGED <<guardVars, envVars, tick, now, nextSweep, pendingStates, tokensFile,
                   codesFile, nextId, nextCode, issued, redeemed, consumed>>

\* getAuthCode: loadAuthCodes' clean-up write lands.
WordpressTokenGetAuthCodeClean(r) ==
    LET q == req[r] IN
    /\ q.op = "wordpress-token" /\ q.pc = "wcClean"
    /\ codesFile' = q.snap
    /\ WordpressTokenAfterAuthCode(r, q.snap)
    /\ UNCHANGED <<guardVars, envVars, tick, now, nextSweep, pendingStates, tokensFile,
                   nextId, nextCode, issued, redeemed, consumed>>

WordpressTokenAfterGetToken(r, tokens) ==
    LET q == [req[r] EXCEPT !.snap = EmptyMap] IN
    IF q.acd.token_id \notin DOMAIN tokens
    THEN Answer(r, q, Resp(404, "Token not found"))
    ELSE LET mcpToken == tokens[q.acd.token_id] IN
         Answer(r, [q EXCEPT !.tok = mcpToken],
                UpstreamTokenResponse("wordpress_token", mcpToken))

\* getToken: loadTokens' read lands.
WordpressTokenGetTokenRead(r) ==
    LET q == req[r]
        valid == Loaded("tokens", tokensFile) IN
    /\ q.op = "wordpress-token" /\ q.pc = "wtRead"
    /\ IF LoadCleans("tokens", tokensFile)
       THEN Await(r, [q EXCEPT !.pc = "wtClean", !.snap = valid])
       ELSE WordpressTokenAfterGetToken(r, valid)
    /\ UNCHANGED <<guardVars, envVars, tick, now, nextSweep, pendingStates, tokensFile,
                   codesFile, nextId, nextCode, issued, redeemed, consumed>>

\* getToken: loadTokens' clean-up write lands.
WordpressTokenGetTokenClean(r) ==
    LET q == req[r] IN
    /\ q.op = "wordpress-token" /\ q.pc = "wtClean"
    /\ tokensFile' = q.snap
    /\ WordpressTokenAfterGetToken(r, q.snap)
    /\ UNCHANGED <<guardVars, envVars, tick, now, nextSweep, pendingStates, codesFile,
                   nextId, nextCode, issued, redeemed, consumed>>

(***************************************************************************)
(* GET /current-token (the route handler, past validateMCPAccess)          *)
(***************************************************************************)
CurrentTokenStart(R) ==
    LET q == [IdleReq EXCEPT !.op = "current-token"] IN
    /\ \E r \in R : Free(R, r) /\ Await(r, [q EXCEPT !.pc = "ctRead"])
    /\ UNCHANGED <<mcpSharedSecret, envVars, tick, now, nextSweep, pendingStates,
                   tokensFile, codesFile, nextId, nextCode, issued, redeemed, consumed>>

\* The loop over Object.values(tokens): the first of the unexpired sessions
\* with the greatest expires_at (ids are minted, and so stored, in order).
LatestToken(tokens) ==
    LET usable == {id \in DOMAIN tokens : tokens[id].expires_at > now}
        latest == {id \in usable :
                     \A o \in usable :
                        \/ tokens[o].expires_at < tokens[id].expires_at
                        \/ (tokens[o].expires_at = tokens[id].expires_at /\ id <= o)} IN
    IF latest = {} THEN NoToken ELSE tokens[CHOOSE id \in latest : TRUE]

CurrentTokenAfterLoad(r, tokens) ==
    LET q == [req[r] EXCEPT !.snap = EmptyMap]
        latestToken == LatestToken(tokens) IN
    IF latestToken = NoToken
    THEN Answer(r, q, Resp(404, "No valid token found"))
    ELSE Answer(r, [q EXCEPT !.tok = latestToken],
                UpstreamTokenResponse("wordpress_token", latestToken))

\* loadTokens' read lands.
CurrentTokenLoadRead(r) ==
    LET q == req[r]
        valid == Loaded("tokens", tokensFile) IN
    /\ q.op = "current-token" /\ q.pc = "ctRead"
    /\ IF LoadCleans("tokens", tokensFile)
       THEN Await(r, [q EXCEPT !.pc = "ctClean", !.snap = valid])
       ELSE CurrentTokenAfterLoad(r, valid)
    /\ UNCHANGED <<guardVars, envVars, tick, now, nextSweep, pendingStates, tokensFile,
                   codesFile, nextId, nextCode, issued, redeemed, consumed>>

\* loadTokens' clean-up write lands.
CurrentTokenLoadClean(r) ==
    LET q == req[r] IN
    /\ q.op = "current-token" /\ q.pc = "ctClean"
    /\ tokensFile' = q.snap
    /\ CurrentTokenAfterLoad(r, q.snap)
    /\ UNCHANGED <<guardVars, envVars, tick, now, nextSweep, pendingStates, codesFile,
                   nextId, nextCode, issued, redeemed, consumed>>

(***************************************************************************)
(* validateMCPAccess: the middleware before /wordpress-token/:auth_code    *)
(* and /current-token.  It is synchronous: one request, one continuation.  *)
(***************************************************************************)
\* The addresses a client can call from (req.ip): two loopback ones, one not.
ClientIPs == {"127.0.0.1", "::1", "203.0.113.7"}
\* The X-MCP-Secret header a client can send: none, the value setup.js wrote
\* into the environment, another value.
Headers == {NoVal, "secret", "guess"}
\* crypto.randomBytes(32).toString('hex'), drawn afresh for every request: no
\* header a client sends equals it.
FreshSecret == "randomBytes"

IsLocalhost(clientIP) ==
    clientIP \in {"127.0.0.1", "::1", "::ffff:127.0.0.1", "127.0.0.2", "localhost"}

ExpectedSecret(configured) == IF configured # NoVal THEN configured ELSE FreshSecret

SecretOk(mcpSecret, expectedSecret) == ~(mcpSecret = NoVal \/ mcpSecret # expectedSecret)

RateKey(clientIP) == "mcp_rate_" \o clientIP

StoredRequests(key) == IF key \in DOMAIN mcpRateLimit THEN mcpRateLimit[key] ELSE <<>>

InWindow(time) == now - time < RateWindow

RateLimited(recentRequests) == Len(recentRequests) >= RateLimit

\* The requests of one client address let through in the trailing window.
Admitted(clientIP) == IF clientIP \in DOMAIN admitted THEN admitted[clientIP] ELSE <<>>

\* The rate table held a full window for the address, the oldest of it exactly
\* RateWindow old.
Refill(requests) == Len(requests) = RateLimit /\ now - requests[1] = RateWindow

\* A faulty refusal, for comparison: it records the request it turns away.
RefusedCounted(q, status, body) ==
    /\ AnswerAtOnce(q, Resp(status, body))
    /\ mcpRateLimit' = Put(mcpRateLimit, RateKey(q.ip),
                           Append(StoredRequests(RateKey(q.ip)), now))
    /\ UNCHANGED <<mcpSharedSecret, admitted, envVars, tick, now, nextSweep, pendingStates,
                   tokensFile, codesFile, nextId, nextCode, issued, redeemed, consumed>>

\* The guard turns request q away.
Refused(q, status, body) ==
    /\ AnswerAtOnce(q, Resp(status, body))
    /\ UNCHANGED <<guardVars, envVars, tick, now, nextSweep, pendingStates, tokensFile,
                   codesFile, nextId, nextCode, issued, redeemed, consumed>>

\* A request for `route` from clientIP carrying header mcpSecret; `next` is
\* the route handler.
ValidateMCPAccess(R, route, clientIP, mcpSecret, next) ==
    LET rateLimitKey == RateKey(clientIP)
        requests == StoredRequests(rateLimitKey)
        recentRequests == SelectSeq(requests, InWindow)
        q == [IdleReq EXCEPT !.op = route, !.ip = clientIP, !.secret = mcpSecret] IN
    /\ \E r \in R : Free(R, r)
    /\ IF ~IsLocalhost(clientIP)
       THEN Refused(q, 403, "Access denied - localhost only")
       ELSE IF ~SecretOk(mcpSecret, ExpectedSecret(mcpSharedSecret))
       THEN Refused(q, 401, "Invalid MCP authentication")
       ELSE IF RateLimited(recentRequests)
       THEN Refused(q, 429, "Rate limit exceeded")
       ELSE /\ mcpRateLimit' = Put(mcpRateLimit, rateLimitKey, Append(recentRequests, now))
            /\ admitted' = Put(admitted, clientIP,
                               Append(Admitted(clientIP),
                                      [at |-> now, secret |-> mcpSecret,
                                       refill |-> Refill(requests)]))
            /\ next

\* A route handler entered with the guard's verdict taken as given.
PastGuard(next) == next /\ UNCHANGED <<mcpRateLimit, admitted>>

(***************************************************************************)
(* The surroundings: the disk and the process.                             *)
(***************************************************************************)
StoreFiles == {"tokens", "codes"}

\* A store file goes missing or is overwritten with something that is not the
\* storage JSON (`lost`), or loses its read permission.
Damage(file, lost) ==
    /\ file \notin unreadable
    /\ unreadable' = unreadable \cup {file}
    /\ IF lost /\ file = "tokens" THEN tokensFile' = EmptyMap ELSE UNCHANGED tokensFile
    /\ IF lost /\ file = "codes" THEN codesFile' = EmptyMap ELSE UNCHANGED codesFile
    /\ out' = NoOut
    /\ UNCHANGED <<guardVars, toolVars, peerVars, bootedAt, tick, now, nextSweep, pendingStates, nextId,
                   nextCode, req, issued, redeemed, consumed>>

\* The file can be read again: its permission is restored, or it holds what
\* a save has written since.
Repair(file) ==
    /\ file \in unreadable
    /\ unreadable' = unreadable \ {file}
    /\ out' = NoOut
    /\ UNCHANGED <<guardVars, toolVars, peerVars, bootedAt, tick, now, nextSweep, pendingStates, tokensFile,
                   codesFile, nextId, nextCode, req, issued, redeemed, consumed>>

\* What a new process finds of a store the old one wrote: the files are in the
\* working directory.
OnDisk(content) == content

\* The web app is stopped and started again: the handlers in flight are gone,
\* the module state is built anew, the files and the environment stay.
Restart ==
    /\ bootedAt < now
    /\ bootedAt' = now
    /\ pendingStates' = EmptyMap
    /\ mcpRateLimit' = EmptyMap
    /\ nextSweep' = now + SweepInterval
    /\ req' = [r \in Req |-> IdleReq]
    /\ tokensFile' = OnDisk(tokensFile)
    /\ codesFile' = OnDisk(codesFile)
    /\ out' = NoOut
    /\ UNCHANGED <<tick, now, nextId, nextCode, issued, redeemed, consumed,
                   mcpSharedSecret, admitted, unreadable, toolVars, peerVars>>

(***************************************************************************)
(* The tools of the MCP server (mcp-server/src/tools.ts, wordpress-api.ts). *)
(***************************************************************************)
\* The tools that name a blog, and what a caller passes for it: getReaderPost
\* takes `site`, followBlog and unfollowBlog take `site_url`.
SiteTools == {"getReaderPost"}

UrlTools == {"followBlog", "unfollowBlog"}

Sites == {"secret.wordpress.com", "example.com"}

SiteUrls == {"https://secret.wordpress.com", "secret.wordpress.com", "https://example.com"}

\* s.includes('.wordpress.com')
IncludesWordpressCom(s) == s \in {"secret.wordpress.com", "https://secret.wordpress.com"}

\* new URL(site_url).hostname; NoVal: the constructor throws (no scheme).
Hostname(site_url) ==
    CASE site_url = "https://secret.wordpress.com" -> "secret.wordpress.com"
      [] site_url = "https://example.com" -> "example.com"
      [] OTHER -> NoVal

\* What the fetch of the blog-stickers endpoint can come to: a list with or
\* without the sticker, a JSON body that is no list (an object; a string that
\* contains the sticker's name), a non-2xx answer, an exception.
StickerOutcomes == {"sticker", "nosticker", "notarray", "string", "non2xx", "neterr"}

\* The answer is 2xx and its body parses: the cache entry is written, with the
\* body when it is a list and with the empty list otherwise.
StickersParsed(outcome) == outcome \in {"sticker", "nosticker", "notarray", "string"}

\* stickers.includes('p2_confidentiality_disabled') on the parsed body: a
\* list's or a string's includes(); on an object it throws, and the catch
\* block returns false.
StickersInclude(outcome) == outcome \in {"sticker", "string"}

\* The call as it ends: whether checkBlogConfidentiality was asked and what it
\* reported, whether callWordPressAPI was called, what the handler returns.
Ended(c, reported, sent) ==
    [c EXCEPT !.pc = "done", !.reported = reported, !.sent = sent,
              !.result = IF sent THEN "api" ELSE "confidentiality error"]

\* What checkBlogConfidentiality returned, as the call records it.
Reported(isAccessible) == IF isAccessible THEN "true" ELSE "false"

\* The handler from the return of checkBlogConfidentiality on.  getReaderPost
\* throws the confidentiality error; followBlog and unfollowBlog throw it
\* inside the try block whose catch swallows it, and go on to the API call.
AfterCheck(c, isAccessible) ==
    IF c.tool \in SiteTools
    THEN Ended(c, Reported(isAccessible), isAccessible)
    ELSE Ended(c, Reported(isAccessible), TRUE)

\* The cached entry is used while younger than CACHE_TTL.
CacheFresh(siteIdOrDomain) ==
    /\ siteIdOrDomain \in DOMAIN blogStickersCache
    /\ now - blogStickersCache[siteIdOrDomain].timestamp < CACHE_TTL

\* A tool is called: the handler runs to the fetch of checkBlogConfidentiality,
\* or to its end when no fetch is needed.
ToolCall(tool, arg) ==
    LET c == [NoCall EXCEPT !.tool = tool, !.arg = arg]
        host == IF tool \in SiteTools THEN arg ELSE Hostname(arg) IN
    /\ call.pc # "stickers"
    /\ IF ~IncludesWordpressCom(arg) \/ host = NoVal
       THEN call' = Ended(c, NoVal, TRUE)
       ELSE IF disableConfidentialityCheck = "true"
       THEN call' = AfterCheck([c EXCEPT !.site = host], TRUE)
       ELSE IF CacheFresh(host)
       THEN call' = AfterCheck([c EXCEPT !.site = host],
                               blogStickersCache[host].stickers)
       ELSE call' = [c EXCEPT !.site = host, !.pc = "stickers"]
    /\ UNCHANGED <<guardVars, peerVars, unreadable, bootedAt, disableConfidentialityCheck,
                   blogStickersCache, tick, now, nextSweep, pendingStates, tokensFile,
                   codesFile, nextId, nextCode, req, out, issued, redeemed, consumed>>

\* The fetch of checkBlogConfidentiality lands.  A list is cached (a body that
\* is no list as the empty list, before includes() is called on it); a non-2xx
\* answer and an exception report false and cache nothing.
StickersFetch(outcome) ==
    /\ call.pc = "stickers"
    /\ IF StickersParsed(outcome)
       THEN blogStickersCache' =
                Put(blogStickersCache, call.site,
                    [stickers |-> outcome = "sticker", timestamp |-> now])
       ELSE UNCHANGED blogStickersCache
    /\ call' = AfterCheck([call EXCEPT !.fetched = outcome], StickersInclude(outcome))
    /\ UNCHANGED <<guardVars, peerVars, unreadable, bootedAt, disableConfidentialityCheck, tick,
                   now, nextSweep, pendingStates, tokensFile, codesFile, nextId,
                   nextCode, req, out, issued, redeemed, consumed>>

(***************************************************************************)
(* The system.                                                             *)
(***************************************************************************)
\* The codes a client can present: those minted so far, and one never minted.
KnownCodes == 0 .. (nextCode - 1)

Clock == Tick \/ Sweep

\* The bodies of POST /token: an authorization_code grant presents a code and a
\* verifier, a grant of another type (refused before either is read) neither.
TokenBodies(V, G) ==
    {<<g, c, v>> \in G \X KnownCodes \X (V \cup {NoVal}) :
        IF g = "authorization_code" THEN v \in V ELSE c = BogusCode /\ v = NoVal}

\* The requests a client can send: parameters drawn from S (state registered at
\* /authorize), C (code_challenge), V (code_verifier) and G (grant_type); a
\* handler that awaits takes one of the records R.
Requests(R, S, C, V, G) ==
    \/ \E c \in C, m \in {"S256", "plain"}, s \in S : Authorize(c, m, s)
    \/ \E s \in States : CallbackStart(R, s)
    \/ \E b \in TokenBodies(V, G) : TokenStart(R, b[1], b[2], b[3])

\* The continuations of the handlers in the records R, for upstream outcomes O.
Steps(R, O) ==
    \/ \E r \in R, o \in O : CallbackFetch(r, o)
    \/ \E r \in R : CallbackStoreTokenRead(r)
    \/ \E r \in R : CallbackStoreTokenWrite(r)
    \/ \E r \in R : CallbackStoreCodeRead(r)
    \/ \E r \in R, b \in BOOLEAN : CallbackStoreCodeWrite(r, b)
    \/ \E r \in R : TokenGetAuthCodeRead(r)
    \/ \E r \in R : TokenGetTokenRead(r)
    \/ \E r \in R : TokenDeleteCodeRead(r)
    \/ \E r \in R : TokenDeleteCodeWrite(r)

\* The clean-up writes of loadTokens / loadAuthCodes: a load finds expired
\* entries only once the clock has moved.  (The load of deleteAuthCode follows
\* that of getAuthCode within the instant of the request and finds none.)
Cleaners(R) ==
    \/ \E r \in R : CallbackStoreTokenClean(r)
    \/ \E r \in R : CallbackStoreCodeClean(r)
    \/ \E r \in R : TokenGetAuthCodeClean(r)
    \/ \E r \in R : TokenGetTokenClean(r)

\* The requests and continuations of the endpoints that only read the stores; a
\* forged JWT names the first session and never expires.
ForgedJwt == [sub |-> 1, blog_id |-> "blog42", exp |-> Instant(MaxTicks) + JwtTTL,
              signed |-> FALSE]

Readers(R) ==
    \/ \E bearer \in issued \cup {ForgedJwt, NoJwt} : ValidateStart(R, bearer)
    \/ \E r \in R : ValidateGetTokenRead(r)
    \/ \E r \in R : ValidateGetTokenClean(r)
    \/ \E c \in KnownCodes : PastGuard(WordpressTokenStart(R, c))
    \/ \E r \in R : WordpressTokenGetAuthCodeRead(r)
    \/ \E r \in R : WordpressTokenGetAuthCodeClean(r)
    \/ \E r \in R : WordpressTokenGetTokenRead(r)
    \/ \E r \in R : WordpressTokenGetTokenClean(r)
    \/ PastGuard(CurrentTokenStart(R))
    \/ \E r \in R : CurrentTokenLoadRead(r)
    \/ \E r \in R : CurrentTokenLoadClean(r)

\* One request at a time, the clock running: every upstream outcome, a
\* well-formed and a malformed /authorize, the right, a wrong and a missing
\* verifier, a supported and an unsupported grant type.
Next ==
    \/ Clock
    \/ Requests({1}, {"s1"}, {"h1", NoVal}, Verifiers \cup {NoVal},
                {"authorization_code", "refresh_token"})
    \/ Steps({1}, {"ok", "non2xx", "neterr", "badjson"})
    \/ Cleaners({1})

Spec == Init /\ [][Next]_vars

\* Two requests in flight within one instant (no entry expires meanwhile, so no
\* load has anything to clean up).
NextRace ==
    \/ Requests(Req, {"s1"}, {"h1"}, Verifiers, {"authorization_code"})
    \/ Steps(Req, {"ok", "neterr"})

SpecRace == Init /\ [][NextRace]_vars

\* The reading endpoints beside a well-behaved authorization flow, one request
\* at a time, the clock running.
NextRead ==
    \/ Clock
    \/ Requests({1}, {"s1"}, {"h1"}, {"v1"}, {"authorization_code"})
    \/ Steps({1}, {"ok"})
    \/ Cleaners({1})
    \/ Readers({1})

SpecRead == Init /\ [][NextRead]_vars

\* The guarded endpoints behind their guard, MCP_SHARED_SECRET configured or
\* not, one request at a time, the clock running; no session has been stored.
InitAnyEnv == \E secret \in {"secret", NoVal} : InitEnv(secret)

GuardedRequests(R, IPs, Secrets, C) ==
    \/ \E clientIP \in IPs, mcpSecret \in Secrets :
          ValidateMCPAccess(R, "current-token", clientIP, mcpSecret, CurrentTokenStart(R))
    \/ \E clientIP \in IPs, mcpSecret \in Secrets, c \in C :
          ValidateMCPAccess(R, "wordpress-token", clientIP, mcpSecret,
                            WordpressTokenStart(R, c))

NextGuard ==
    \/ Clock
    \/ GuardedRequests({1}, ClientIPs, Headers, {BogusCode})
    \/ WordpressTokenGetAuthCodeRead(1)
    \/ CurrentTokenLoadRead(1)

SpecGuard == InitAnyEnv /\ [][NextGuard]_vars

\* The authorization flow as the MCP server drives it, one flow after the
\* other and nothing else: /authorize with the challenge of a verifier it
\* drew, /callback with that state against an upstream that answers, /token
\* with the code handed back and the verifier, /validate with the credential
\* handed back.  The clock runs between the requests.
CodeChallenge(codeVerifier) ==
    CASE codeVerifier = "v1" -> "h1" [] codeVerifier = "v2" -> "h2" [] OTHER -> "h?"

FlowIdle ==
    /\ pendingStates = EmptyMap
    /\ codesFile = EmptyMap
    /\ \A r \in Req : req[r].pc = "idle"

FlowRequests(R, S, V) ==
    \/ \E codeVerifier \in V, state \in S :
          FlowIdle /\ Authorize(CodeChallenge(codeVerifier), "S256", state)
    \/ \E state \in DOMAIN pendingStates : CallbackStart(R, state)
    \/ \E code \in DOMAIN codesFile, codeVerifier \in V :
          /\ CodeChallenge(codeVerifier) = codesFile[code].code_challenge
          /\ TokenStart(R, "authorization_code", code, codeVerifier)
    \/ \E bearer \in issued :
          FlowIdle /\ bearer.sub = nextId - 1 /\ ValidateStart(R, bearer)

NextFlow ==
    \/ Clock
    \/ FlowRequests({1}, States, Verifiers)
    \/ Steps({1}, {"ok"})
    \/ CallbackStoreTokenClean(1)
    \/ TokenGetAuthCodeClean(1)
    \/ TokenGetTokenClean(1)
    \/ ValidateGetTokenRead(1)
    \/ ValidateGetTokenClean(1)

SpecFlow == Init /\ [][NextFlow]_vars

\* The endpoints that read the stores, beside a well-behaved authorization
\* flow, on a disk whose files fail to read now and then; one request at a
\* time within one instant.
NextFault ==
    \/ \E file \in StoreFiles, lost \in BOOLEAN : Damage(file, lost)
    \/ \E file \in StoreFiles : Repair(file)
    \/ Requests({1}, {"s1"}, {"h1"}, {"v1"}, {"authorization_code"})
    \/ Steps({1}, {"ok"})
    \/ \E bearer \in issued : ValidateStart({1}, bearer)
    \/ ValidateGetTokenRead(1)
    \/ \E c \in KnownCodes : PastGuard(WordpressTokenStart({1}, c))
    \/ WordpressTokenGetAuthCodeRead(1)
    \/ WordpressTokenGetTokenRead(1)
    \/ PastGuard(CurrentTokenStart({1}))
    \/ CurrentTokenLoadRead(1)

SpecFault == Init /\ [][NextFault]_vars

\* The web app restarted now and then while the MCP server runs one
\* authorization flow after the other and polls /current-token through the
\* guard; one request at a time, the clock running.
McpServerIP == "127.0.0.1"

NextRestart ==
    \/ Clock
    \/ Restart
    \/ FlowRequests({1}, {"s1"}, {"v1"})
    \/ Steps({1}, {"ok"})
    \/ CallbackStoreTokenClean(1)
    \/ TokenGetAuthCodeClean(1)
    \/ TokenGetTokenClean(1)
    \/ ValidateGetTokenRead(1)
    \/ ValidateGetTokenClean(1)
    \/ /\ Len(SelectSeq(StoredRequests(RateKey(McpServerIP)), InWindow)) < MaxPolls
       /\ ValidateMCPAccess({1}, "current-token", McpServerIP, mcpSharedSecret,
                            CurrentTokenStart({1}))
    \/ CurrentTokenLoadRead(1)
    \/ CurrentTokenLoadClean(1)

SpecRestart == Init /\ [][NextRestart]_vars

\* Redemptions in flight together, within one instant: the callbacks run one
\* at a time and alone, /token requests overlap one another only.
AllIdle == \A r \in Req : req[r].pc = "idle"

NextRedeem ==
    \/ AllIdle /\ Authorize("h1", "S256", "s1")
    \/ AllIdle /\ CallbackStart(Req, "s1")
    \/ \E code \in KnownCodes \ {BogusCode} :
          /\ \A r \in Req : req[r].op # "callback"
          /\ TokenStart(Req, "authorization_code", code, "v1")
    \/ Steps(Req, {"ok"})

SpecRedeem == Init /\ [][NextRedeem]_vars

\* The callbacks against an upstream that answers, fails or stays silent, one
\* request at a time, the clock running; the event loop runs every
\* continuation that is ready.
CallbackSteps(r) ==
    \/ \E o \in {"ok", "neterr"} : CallbackFetch(r, o)
    \/ CallbackFetchHangs(r)
    \/ CallbackStoreTokenRead(r)
    \/ CallbackStoreTokenClean(r)
    \/ CallbackStoreTokenWrite(r)
    \/ CallbackStoreCodeRead(r)
    \/ CallbackStoreCodeClean(r)
    \/ \E b \in BOOLEAN : CallbackStoreCodeWrite(r, b)

NextLive ==
    \/ Clock
    \/ AllIdle /\ Authorize("h1", "S256", "s1")
    \/ CallbackStart({1}, "s1")
    \/ CallbackSteps(1)

SpecLive == Init /\ [][NextLive]_vars /\ WF_vars(CallbackSteps(1))

\* Slow requests: the clock moves, and the sweep runs, between any two
\* continuations of a callback; no other request arrives meanwhile.
CallbackAwaits ==
    {"idle", "hung", "fetch", "stRead", "stClean", "stWrite", "acRead", "acClean",
     "acWrite"}

NextSlow ==
    \/ TickWhen(CallbackAwaits)
    \/ Sweep
    \/ \E c \in Challenges : AllIdle /\ Authorize(c, "S256", "s1")
    \/ CallbackStart({1}, "s1")
    \/ CallbackSteps(1)

SpecSlow == Init /\ [][NextSlow]_vars

\* A client that asks again: /authorize arrives for the same state value, with
\* either challenge, while a callback for it may be awaiting; the clock moves
\* between the callback's continuations.
NextRetry ==
    \/ TickWhen(CallbackAwaits)
    \/ Sweep
    \/ \E c \in Challenges : Authorize(c, "S256", "s1")
    \/ CallbackStart({1}, "s1")
    \/ CallbackSteps(1)

SpecRetry == Init /\ [][NextRetry]_vars

\* Two logins at once: callbacks for different states overlap at their awaits,
\* within one instant, against an upstream that answers.
StateInFlight(state) == \E r \in Req : req[r].op = "callback" /\ req[r].state = state

NextPair ==
    \/ \E s \in States : Authorize(CodeChallenge("v1"), "S256", s)
    \/ \E s \in States : ~StateInFlight(s) /\ CallbackStart(Req, s)
    \/ \E r \in Req : CallbackFetch(r, "ok")
    \/ \E r \in Req : CallbackStoreTokenRead(r)
    \/ \E r \in Req : CallbackStoreTokenWrite(r)
    \/ \E r \in Req : CallbackStoreCodeRead(r)
    \/ \E r \in Req : CallbackStoreCodeWrite(r, FALSE)

SpecPair == Init /\ [][NextPair]_vars

\* A login while the MCP server polls: a callback and a /current-token request
\* overlap at their file awaits; the clock moves between requests, so that a
\* load can find an expired session to clean up.
NextPoll ==
    \/ Clock
    \/ AllIdle /\ Authorize(CodeChallenge("v1"), "S256", "s1")
    \/ CallbackStart(Req, "s1")
    \/ \E r \in Req : CallbackFetch(r, "ok")
    \/ \E r \in Req : CallbackStoreTokenRead(r)
    \/ \E r \in Req : CallbackStoreTokenClean(r)
    \/ \E r \in Req : CallbackStoreTokenWrite(r)
    \/ \E r \in Req : CallbackStoreCodeRead(r)
    \/ \E r \in Req : CallbackStoreCodeClean(r)
    \/ \E r \in Req : CallbackStoreCodeWrite(r, FALSE)
    \/ (\A r \in Req : req[r].op # "current-token") /\ PastGuard(CurrentTokenStart(Req))
    \/ \E r \in Req : CurrentTokenLoadRead(r)
    \/ \E r \in Req : CurrentTokenLoadClean(r)

SpecPoll == Init /\ [][NextPoll]_vars

\* Registrations only: clients register states, a client that has registered
\* a state with the first challenge may ask again with the second, malformed
\* requests arrive too; the clock runs and the sweep clears what has expired.
NextRegister ==
    \/ Clock
    \/ \E m \in {"S256", "plain"}, s \in States :
          Authorize(CodeChallenge("v1"), m, s)
    \/ \E s \in DOMAIN pendingStates : Authorize(CodeChallenge("v2"), "S256", s)
    \/ \E s \in States : Authorize(NoVal, "S256", s)

SpecRegister == Init /\ [][NextRegister]_vars

\* The guarded endpoints beside the authorization flow: the MCP server drives
\* one flow after the other and asks for the token, by code or the current
\* one, through the guard; a remote caller and a caller with a guessed secret
\* ask too.  One request at a time, the clock running.
RemoteIP == "203.0.113.7"

MayPoll == Len(SelectSeq(StoredRequests(RateKey(McpServerIP)), InWindow)) < MaxPolls

NextGate ==
    \/ Clock
    \/ FlowRequests({1}, {"s1"}, {"v1"})
    \/ Steps({1}, {"ok"})
    \/ CallbackStoreTokenClean(1)
    \/ TokenGetAuthCodeClean(1)
    \/ TokenGetTokenClean(1)
    \/ MayPoll /\ GuardedRequests({1}, {McpServerIP, RemoteIP}, {"secret", "guess"},
                                  KnownCodes)
    \/ WordpressTokenGetAuthCodeRead(1)
    \/ WordpressTokenGetAuthCodeClean(1)
    \/ WordpressTokenGetTokenRead(1)
    \/ WordpressTokenGetTokenClean(1)
    \/ CurrentTokenLoadRead(1)
    \/ CurrentTokenLoadClean(1)

SpecGate == Init /\ [][NextGate]_vars

\* The tools of the MCP server, one call at a time, the clock running, the
\* confidentiality check disabled in the environment or not.
InitAnyTools ==
    /\ \E disabled \in {NoVal, "true"} : InitTools(disabled)
    /\ InitPeers
    /\ tick = 0 /\ now = 0 /\ nextSweep = SweepInterval
    /\ pendingStates = EmptyMap /\ tokensFile = EmptyMap /\ codesFile = EmptyMap
    /\ nextId = 1 /\ nextCode = 1
    /\ req = [r \in Req |-> IdleReq] /\ out = NoOut
    /\ issued = {} /\ redeemed = {} /\ consumed = {}
    /\ mcpSharedSecret = "secret" /\ mcpRateLimit = EmptyMap /\ admitted = EmptyMap
    /\ unreadable = {} /\ bootedAt = 0

NextTools ==
    \/ Clock
    \/ \E tool \in SiteTools, site \in Sites : ToolCall(tool, site)
    \/ \E tool \in UrlTools, site_url \in SiteUrls : ToolCall(tool, site_url)
    \/ \E outcome \in StickerOutcomes : StickersFetch(outcome)

SpecTools == InitAnyTools /\ [][NextTools]_vars

(***************************************************************************)
(* The in-memory router (web-app/src/auth.ts), served the requests of the  *)
(* file-backed router one at a time: each request goes to the in-memory    *)
(* router first, which answers it in one continuation (its store functions *)
(* touch Maps only), then to the file-backed router, and the next request  *)
(* waits for both answers.                                                 *)
(***************************************************************************)
\* The in-memory router answers request `served` with `status` and is left as w.
WebAnswers(w, served, status) ==
    /\ webApp.turn = "web" /\ AllIdle
    /\ webApp' = [w EXCEPT !.turn = "file", !.last = [served EXCEPT !.status = status]]
    /\ out' = NoOut
    /\ UNCHANGED <<guardVars, toolVars, mcpAuth, unreadable, bootedAt, tick, now,
                   nextSweep, pendingStates, tokensFile, codesFile, nextId, nextCode,
                   req, issued, redeemed, consumed>>

WebAuthorize(code_challenge, method, state) ==
    LET served == [NoServed EXCEPT !.op = "authorize", !.state = state,
                                   !.challenge = code_challenge, !.method = method] IN
    IF ~PkceParamsOk(code_challenge, method)
    THEN WebAnswers(webApp, served, 400)
    ELSE WebAnswers([webApp EXCEPT !.pendingStates =
                        Put(@, state, [code_challenge |-> code_challenge,
                                       expires_at |-> now + StateTTL])],
                    served, 302)

\* The whole handler: state check, upstream exchange (with `outcome`),
\* storeToken, storeAuthCode, redirect, pendingStates.delete.  `browser` is the
\* User-Agent of the request, which this router does not read.
WebCallback(state, outcome, browser) ==
    LET served == [NoServed EXCEPT !.op = "callback", !.state = state,
                                   !.outcome = outcome, !.browser = browser]
        stateData == Get(webApp.pendingStates, state)
        tokenData == TokenInfoOf(outcome, UpstreamToken(webApp.nextId))
        mcpToken == [id |-> webApp.nextId, wordpress_token |-> tokenData.access_token,
                     expires_at |-> now + SessionTTL, blog_id |-> tokenData.blog_id]
        authCode == webApp.nextCode IN
    IF stateData = NoStateData
    THEN WebAnswers(webApp, served, 400)
    ELSE IF UpstreamThrows(outcome)
    THEN WebAnswers([webApp EXCEPT !.pendingStates = Del(@, state)], served, 500)
    ELSE /\ webApp.nextId <= MaxSessions
         /\ WebAnswers([webApp EXCEPT
                           !.tokens = Put(@, mcpToken.id, mcpToken),
                           !.authCodes = Put(@, authCode,
                                             [token_id |-> mcpToken.id,
                                              code_challenge |-> stateData.code_challenge]),
                           !.nextId = @ + 1, !.nextCode = @ + 1,
                           !.pendingStates = Del(@, state)],
                       served, 302)

WebToken(grant_type, code, code_verifier) ==
    LET served == [NoServed EXCEPT !.op = "token", !.grant = grant_type, !.code = code,
                                   !.verifier = code_verifier]
        authCodeData == webApp.authCodes[code]
        mcpToken == webApp.tokens[authCodeData.token_id]
        accessToken == [sub |-> mcpToken.id, blog_id |-> mcpToken.blog_id,
                        exp |-> now + JwtTTL, signed |-> TRUE] IN
    IF grant_type # "authorization_code" THEN WebAnswers(webApp, served, 400)
    ELSE IF code \notin DOMAIN webApp.authCodes THEN WebAnswers(webApp, served, 400)
    ELSE IF code_verifier = NoVal THEN WebAnswers(webApp, served, 500)
    ELSE IF ~PkceMatches(code_verifier, authCodeData.code_challenge)
    THEN WebAnswers(webApp, served, 400)
    ELSE IF authCodeData.token_id \notin DOMAIN webApp.tokens
    THEN WebAnswers(webApp, served, 400)
    ELSE WebAnswers([webApp EXCEPT !.issued = @ \cup {accessToken},
                                   !.authCodes = Del(@, code)],
                    served, 200)

WebValidate(bearer) ==
    LET served == [NoServed EXCEPT !.op = "validate", !.bearer = bearer] IN
    IF bearer = NoJwt THEN WebAnswers(webApp, served, 401)
    ELSE IF ~JwtVerifies(bearer) THEN WebAnswers(webApp, served, 401)
    ELSE IF ~SessionUsable(webApp.tokens, bearer.sub) THEN WebAnswers(webApp, served, 401)
    ELSE WebAnswers(webApp, served, 200)

\* The request last served to the in-memory router arrives at the file-backed
\* one.
FileServes(R) ==
    LET l == webApp.last IN
    /\ webApp.turn = "file" /\ AllIdle /\ out.pc # "sent"
    /\ CASE l.op = "authorize" -> Authorize(l.challenge, l.method, l.state)
         [] l.op = "callback" -> CallbackStart(R, l.state)
         [] l.op = "token" -> TokenStart(R, l.grant, l.code, l.verifier)
         [] l.op = "validate" -> ValidateStart(R, l.bearer)

\* Both routers have answered: the next request may come once the handler of
\* the file-backed router has returned (/token answers before it deletes the
\* code).
BothAnswered ==
    /\ webApp.turn = "file" /\ out.pc = "sent"
    /\ webApp' = [webApp EXCEPT !.turn = "web"]
    /\ out' = NoOut
    /\ UNCHANGED <<guardVars, toolVars, mcpAuth, unreadable, bootedAt, tick, now,
                   nextSweep, pendingStates, tokensFile, codesFile, nextId, nextCode,
                   req, issued, redeemed, consumed>>

\* No answer of the file-backed router waits to be compared.
Unanswered == ~(webApp.turn = "file" /\ out.pc = "sent")

\* Sequential requests to both routers, within the first ten minutes: nothing
\* stored reaches its expiry, the files can be read and written, the upstream
\* answers with a token, with an error body or not at all.  A handler that has
\* answered goes on once the answer has been compared.
NextTwin ==
    \/ tick < 1 /\ webApp.turn = "web" /\ Tick
    \/ \E c \in {"h1", NoVal}, s \in States : WebAuthorize(c, "S256", s)
    \/ \E s \in States, o \in {"ok", "non2xx", "neterr"}, b \in BOOLEAN :
          WebCallback(s, o, b)
    \/ \E c \in 0 .. (webApp.nextCode - 1), v \in {"v1", "v2", NoVal} :
          WebToken("authorization_code", c, v)
    \/ WebToken("refresh_token", BogusCode, NoVal)
    \/ \E bearer \in issued \cup webApp.issued \cup {ForgedJwt, NoJwt} : WebValidate(bearer)
    \/ FileServes({1})
    \/ BothAnswered
    \/ Unanswered /\ CallbackFetch(1, webApp.last.outcome)
    \/ Unanswered /\ CallbackStoreTokenRead(1)
    \/ Unanswered /\ CallbackStoreTokenWrite(1)
    \/ Unanswered /\ CallbackStoreCodeRead(1)
    \/ Unanswered /\ CallbackStoreCodeWrite(1, webApp.last.browser)
    \/ Unanswered /\ TokenGetAuthCodeRead(1)
    \/ Unanswered /\ TokenGetTokenRead(1)
    \/ Unanswered /\ TokenDeleteCodeRead(1)
    \/ Unanswered /\ TokenDeleteCodeWrite(1)
    \/ Unanswered /\ ValidateGetTokenRead(1)

SpecTwin == Init /\ [][NextTwin]_vars

(***************************************************************************)
(* getBackgroundToken of the MCP server (mcp-server/src/auth.ts), split at  *)
(* its awaits: the cache read, the health check, the request to            *)
(* /current-token, the cache write.                                        *)
(***************************************************************************)
\* A faulty freshness test, for comparison: a token is used at its expiry.
UsableAtExpiry(cachedToken, t) == cachedToken.parses /\ cachedToken.expires_at >= t

\* cachedToken && cachedToken.expires_at > Date.now()
CacheUsable(cachedToken, t) == cachedToken.parses /\ cachedToken.expires_at > t

\* What /current-token can answer, or the fetch come to: the latest session
\* (with or without expires_at in the body), a session without an upstream
\* token (the field is absent from the JSON), 404, the guard's refusals, 500,
\* a body that does not parse, no connection.
CurrentTokenAnswers ==
    {"token", "tokenNoExpiry", "noToken", "404", "401", "429", "500", "badjson", "neterr"}

\* response.ok and tokenData.wordpress_token is there.
CarriesToken(answer) == answer \in {"token", "tokenNoExpiry"}

BackgroundFrame ==
    UNCHANGED <<guardVars, toolVars, webApp, unreadable, bootedAt, tick, now, nextSweep,
                pendingStates, tokensFile, codesFile, nextId, nextCode, req, out,
                issued, redeemed, consumed>>

\* The call returns `result`.
BackgroundReturns(m, result) == mcpAuth' = [m EXCEPT !.pc = "done", !.result = result]

\* getBackgroundToken is called in a process whose MCP_SHARED_SECRET is
\* `secret`; loadCachedToken's read lands.
GetBackgroundToken(secret) ==
    LET m == [InitMcpAuth EXCEPT !.cache = mcpAuth.cache, !.secret = secret, !.at = now,
                                 !.before = mcpAuth.cache]
        cachedToken == mcpAuth.cache IN
    /\ mcpAuth.pc \in {"idle", "done"}
    /\ IF CacheUsable(cachedToken, now)
       THEN BackgroundReturns(m, cachedToken.wordpress_token)
       ELSE mcpAuth' = [m EXCEPT !.pc = "health"]
    /\ BackgroundFrame

\* ensureAuthServerRunning returns `up`; with the server up and the secret
\* configured the request to /current-token is sent.
BackgroundHealth(up) ==
    LET m == [mcpAuth EXCEPT !.up = up] IN
    /\ mcpAuth.pc = "health"
    /\ IF ~up THEN BackgroundReturns(m, NoVal)
       ELSE IF m.secret = NoVal THEN BackgroundReturns(m, NoVal)
       ELSE mcpAuth' = [m EXCEPT !.pc = "fetch", !.asked = TRUE]
    /\ BackgroundFrame

\* The request to /current-token comes back; a token is handed to
\* saveCachedToken, with the expiry of the body or one hour from now.
BackgroundFetch(answer, token, expires_at) ==
    LET m == [mcpAuth EXCEPT !.answer = answer] IN
    /\ mcpAuth.pc = "fetch"
    /\ IF CarriesToken(answer)
       THEN mcpAuth' =
               [m EXCEPT !.pc = "save",
                         !.tokenData =
                            [wordpress_token |-> token,
                             expires_at |-> IF answer = "token" THEN expires_at
                                            ELSE now + SessionTTL,
                             parses |-> TRUE]]
       ELSE BackgroundReturns(m, NoVal)
    /\ BackgroundFrame

\* saveCachedToken's writeFile lands, or fails and is logged; the token is
\* returned.
BackgroundSave(written) ==
    LET m == [mcpAuth EXCEPT !.saved = written,
                             !.cache = IF written THEN mcpAuth.tokenData ELSE @] IN
    /\ mcpAuth.pc = "save"
    /\ BackgroundReturns(m, m.tokenData.wordpress_token)
    /\ BackgroundFrame

\* Calls of getBackgroundToken one after the other, the clock moving between
\* them; the sessions /current-token serves expire within the hour.
NextBackground ==
    \/ mcpAuth.pc \in {"idle", "done"} /\ Tick
    \/ mcpAuth.pc \in {"idle", "done"} /\ Sweep
    \/ \E secret \in {"secret", NoVal} : GetBackgroundToken(secret)
    \/ \E up \in BOOLEAN : BackgroundHealth(up)
    \/ \E answer \in CurrentTokenAnswers, token \in {"tokA", "tokB"},
          expires_at \in {now + Quantum, now + SessionTTL} :
          BackgroundFetch(answer, token, expires_at)
    \/ \E written \in BOOLEAN : BackgroundSave(written)

SpecBackground == Init /\ [][NextBackground]_vars

(***************************************************************************)
(* Properties.                                                             *)
(***************************************************************************)
\* The answered /token request whose code was found in the store, presented
\* with a verifier that hashes to another challenge than the stored one.
WrongVerifier(o) ==
    /\ o.op = "token" /\ o.pc = "sent"
    /\ o.acd # NoCodeData
    /\ o.verifier # NoVal
    /\ S256(o.verifier) # o.acd.code_challenge

\* C1: a POST /token that presents a code of the store with a verifier whose
\* S256 challenge differs from the stored one is answered 400 invalid_grant,
\* never 200, and the step that answers it leaves the code (with its data) in
\* the code store and the session store as it was, so that the request with the
\* right verifier is afterwards answered as if the wrong one had never been sent.
C1_WrongVerifierRefused ==
    [][WrongVerifier(out') =>
          /\ out'.resp.status = 400 /\ out'.resp.body = "invalid_grant"
          /\ out'.code \in DOMAIN codesFile'
          /\ codesFile'[out'.code] = out'.acd
          /\ codesFile' = ValidEntries(codesFile)
          /\ tokensFile' = tokensFile]_vars

\* A wrong verifier has just been refused and the code is still redeemable.
C1_Witness ==
    /\ WrongVerifier(out)
    /\ out.resp.body = "invalid_grant"
    /\ out.code \in DOMAIN ValidEntries(codesFile)
    /\ PkceMatches("v1", codesFile[out.code].code_challenge)
    /\ codesFile[out.code].token_id \in DOMAIN ValidEntries(tokensFile)

\* C2: once a redemption of a code has finished, every later POST /token with
\* that code is answered 400 invalid_grant; and a 200 answer names (sub) the
\* session the code was bound to.
C2_RedeemedOnce ==
    /\ (out.op = "token" /\ out.pc = "sent" /\ out.late)
          => (out.resp.status = 400 /\ out.resp.body = "invalid_grant")
    /\ (out.op = "token" /\ out.resp.status = 200) => out.resp.sub = out.acd.token_id

\* C3: of the POST /token requests in flight with the same code, at most one is
\* answered with a credential.
C3_OneCredentialPerCode ==
    \A r1, r2 \in Req :
        (/\ r1 # r2
         /\ req[r1].op = "token" /\ req[r2].op = "token"
         /\ req[r1].code = req[r2].code
         /\ req[r1].resp.status = 200)
            => req[r2].resp.status # 200

\* A /callback answered with the page of the failed state check.
StateRefused(o) == o.op = "callback" /\ o.pc = "sent" /\ o.resp.status = 400

\* C4: a state a /callback has completed with (whatever the upstream exchange
\* gave) is out of the registry until an /authorize registers it again: only a
\* successful /authorize for that very state brings it back, and a /callback
\* that presents it meanwhile is answered 400 and mints no session and no code.
C4_StateSingleUse ==
    [][/\ \A s \in consumed' : s \notin DOMAIN pendingStates'
       /\ \A s \in consumed \ consumed' :
             out'.op = "authorize" /\ out'.state = s /\ out'.resp.status = 302
       /\ \A r \in Req :
             (req[r].pc = "idle" /\ req'[r].op = "callback")
                => req'[r].state \notin consumed
       /\ (StateRefused(out') /\ out'.state \in consumed)
             => /\ nextId' = nextId /\ nextCode' = nextCode
                /\ tokensFile' = tokensFile /\ codesFile' = codesFile
                /\ req' = req]_vars

\* A second /callback with a consumed state has just been refused.
C4_Witness ==
    /\ StateRefused(out)
    /\ out.state \in consumed
    /\ nextId > 1

\* C5: of the /callback requests in flight with the same state, at most one has
\* passed the state check.
C5_OneCallbackPerState ==
    \A r1, r2 \in Req :
        (r1 # r2 /\ req[r1].op = "callback" /\ req[r2].op = "callback")
            => req[r1].state # req[r2].state

\* C6: no /callback passes the state check with a state whose expires_at has
\* passed (a handler runs within the instant its request arrived at).
C6_ExpiredStateRefused ==
    \A r \in Req :
        req[r].op = "callback" => ~(req[r].stateData.expires_at < now)

\* The handlers that read the stores on behalf of a client.
ReaderOps == {"token", "validate", "wordpress-token", "current-token"}

\* The session and the code a handler record holds, if any, are unexpired.
HoldsLiveOnly(q) ==
    /\ q.tok # NoToken => q.tok.expires_at > now
    /\ q.acd # NoCodeData => q.acd.expires_at > now

\* C7: what getToken, getAuthCode and loadTokens hand to /token, /validate,
\* /wordpress-token/:code and /current-token, and what these act on and answer
\* from, is never a session or a code whose expires_at is at or before the
\* current time: such an entry, though still in the file, is as good as
\* absent (a handler runs within the instant its request arrived at).
C7_ExpiredInvisible ==
    /\ \A r \in Req : req[r].op \in ReaderOps => HoldsLiveOnly(req[r])
    /\ out.op \in ReaderOps => HoldsLiveOnly(out)
    /\ (out.op \in ReaderOps /\ out.resp.status = 200)
          => (out.tok # NoToken /\ out.resp.exp > now)

\* /validate is looking for a session that lies in the file, expired at this
\* very instant, and that its load has not returned.
C7_Witness ==
    \E r \in Req :
        /\ req[r].op = "validate" /\ req[r].pc = "vClean"
        /\ req[r].bearer.sub \in DOMAIN tokensFile
        /\ tokensFile[req[r].bearer.sub].expires_at = now
        /\ req[r].bearer.sub \notin DOMAIN req[r].snap

\* C8: a /callback with a state the registry does not hold is answered 400 in
\* the continuation it arrives in: no handler goes on to the upstream exchange
\* with such a state, and the answer leaves the session store, the code store
\* and the registry as they were.
C8_UnknownStateRefused ==
    [][/\ \A r \in Req :
             (req[r].pc = "idle" /\ req'[r].op = "callback")
                => req'[r].state \in DOMAIN pendingStates
       /\ StateRefused(out')
             => /\ out'.state \notin DOMAIN pendingStates
                /\ pendingStates' = pendingStates
                /\ tokensFile' = tokensFile /\ codesFile' = codesFile
                /\ nextId' = nextId /\ nextCode' = nextCode
                /\ req' = req]_vars

\* A never-registered state has just been refused, with a session, a code and
\* a pending state at stake.
C8_Witness ==
    /\ StateRefused(out)
    /\ out.state = "s2"
    /\ DOMAIN pendingStates # {}
    /\ DOMAIN tokensFile # {}
    /\ DOMAIN codesFile # {}

\* C9: no session and no code is stored after an upstream exchange that failed:
\* every stored session holds the access token of a successful exchange, and
\* every handler past the exchange has one.
C9_NothingStoredOnFailure ==
    /\ \A id \in DOMAIN tokensFile : tokensFile[id].wordpress_token # NoVal
    /\ \A r \in Req :
          (req[r].op = "callback" /\ req[r].pc # "fetch")
             => req[r].tok.wordpress_token # NoVal

\* An answered /authorize request without a challenge or with another method
\* than S256.
BadPkceParams(o) ==
    /\ o.op = "authorize" /\ o.pc = "sent"
    /\ (o.challenge = NoVal \/ o.method # "S256")

\* C10: an /authorize without code_challenge, or with a method other than S256,
\* is answered 400, not with the redirect, and leaves the registry as it was.
C10_PkceRequired ==
    [][BadPkceParams(out') =>
          /\ out'.resp.status = 400 /\ out'.resp.body = "PKCE required"
          /\ pendingStates' = pendingStates]_vars

\* A challenge with the method "plain" has just been refused while another
\* registration is pending.
C10_Witness ==
    /\ BadPkceParams(out)
    /\ out.challenge # NoVal
    /\ out.resp.status = 400
    /\ DOMAIN pendingStates # {}

(***************************************************************************)
(* The access guard.                                                       *)
(***************************************************************************)
GuardedOps == {"wordpress-token", "current-token"}
\* The loopback addresses among the clients'.
Loopback == {"127.0.0.1", "::1"}
\* The response of the guard itself (a route handler's answer names no address).
GuardAnswered(o) == o.op \in GuardedOps /\ o.pc = "sent" /\ o.ip # NoVal

\* C11: with no MCP_SHARED_SECRET configured the guard fails closed: whatever
\* address a request comes from and whatever X-MCP-Secret it carries, it is
\* refused (403 or 401), no route handler runs, nothing is admitted.
C11_FailsClosed ==
    mcpSharedSecret = NoVal =>
        /\ \A r \in Req : req[r].op \notin GuardedOps
        /\ out.op \in GuardedOps => GuardAnswered(out) /\ out.resp.status \in {401, 403}
        /\ \A ip \in ClientIPs : Admitted(ip) = <<>>

\* A local caller presenting a header to an unconfigured guard has been refused.
C11_Witness ==
    /\ mcpSharedSecret = NoVal
    /\ GuardAnswered(out) /\ out.ip \in Loopback /\ out.secret # NoVal
    /\ out.resp.status = 401

\* C12: the guard checks origin, then secret, then rate, and the first check
\* that fails decides: a non-loopback caller gets 403 whatever it sends and
\* whatever its history; a loopback caller without the right secret gets 401
\* even when its address is rate limited; 429 goes only to a loopback caller
\* with the right secret; a route handler runs only for a request that passed
\* all three.
C12_ChecksInOrder ==
    /\ GuardAnswered(out) =>
          /\ out.ip \notin Loopback => out.resp.status = 403
          /\ (out.ip \in Loopback /\ (out.secret = NoVal \/ out.secret # mcpSharedSecret))
                => out.resp.status = 401
          /\ out.resp.status = 429
                => out.ip \in Loopback /\ out.secret # NoVal /\ out.secret = mcpSharedSecret
          /\ out.resp.status \in {403, 401, 429}
    /\ \A ip \in DOMAIN admitted :
          \A i \in 1 .. Len(admitted[ip]) :
             /\ ip \in Loopback
             /\ admitted[ip][i].secret # NoVal /\ admitted[ip][i].secret = mcpSharedSecret
    /\ \A r \in Req :
          req[r].op \in GuardedOps =>
             \E ip \in Loopback :
                Admitted(ip) # <<>> /\ Admitted(ip)[Len(Admitted(ip))].at = now

\* A caller without the right secret is answered 401 while its address has
\* used up its rate.
C12_Witness ==
    /\ GuardAnswered(out) /\ out.resp.status = 401
    /\ Len(Admitted(out.ip)) >= RateLimit

\* C13: for a loopback caller with the right secret, a request is let through
\* exactly when fewer than 10 requests of its address were let through less
\* than 60 s before it, and is answered 429 otherwise: the first 10 of a
\* window pass, the 11th does not, and one made 60 s or more after the first
\* passes again.
C13_RateBoundary ==
    [][\A ip \in Loopback :
          /\ (GuardAnswered(out') /\ out'.ip = ip
                 /\ out'.secret # NoVal /\ out'.secret = mcpSharedSecret)
                => out'.resp.status = 429 /\ Len(Admitted(ip)) >= RateLimit
          /\ (ip \in DOMAIN admitted' /\ admitted'[ip] # Admitted(ip) /\ now' = now)
                => Len(Admitted(ip)) < RateLimit]_vars

\* A request is let through exactly 60 s after the first of ten that had
\* filled the window.
C13_Witness ==
    \E ip \in DOMAIN admitted :
       \E i \in 1 .. Len(admitted[ip]) :
          admitted[ip][i].refill

\* C14: at no instant have more than 10 requests from one address been let
\* through to the guarded endpoints within the 60 s before it.
C14_AtMostTenPerWindow == \A ip \in ClientIPs : Len(Admitted(ip)) <= RateLimit

\* An address has had its ten requests within the window and is turned away.
C14_Witness ==
    /\ GuardAnswered(out) /\ out.resp.status = 429
    /\ Len(Admitted(out.ip)) = RateLimit
    /\ \A i \in 1 .. RateLimit : now - Admitted(out.ip)[i].at < RateWindow

(***************************************************************************)
(* Validation and the reading endpoints.                                   *)
(***************************************************************************)
\* The credential stands: signed by this server, not past its own expiry, its
\* session in the store and not expired.
Stands(jwt) ==
    /\ jwt.signed /\ now < jwt.exp
    /\ jwt.sub \in DOMAIN tokensFile /\ tokensFile[jwt.sub].expires_at > now

\* C15: /validate always answers (200 or 401, never an exception or a 5xx);
\* the MCP server's validateToken reports valid exactly for a credential with
\* a correct signature, not past its expiry, whose session is stored and not
\* expired, and then hands back that session's upstream token and user_info;
\* for every other credential, and when the web app cannot be reached, its
\* result is {valid: false}.
C15_ValidOnlyIfStands ==
    (out.op = "validate" /\ out.pc = "sent") =>
        LET result == ValidateTokenResult(TRUE, out.resp) IN
        /\ out.resp.status \in {200, 401}
        /\ result.valid <=> (out.bearer # NoJwt /\ Stands(out.bearer))
        /\ result.valid =>
              /\ result.wordpress_token = tokensFile[out.bearer.sub].wordpress_token
              /\ result.user_info = tokensFile[out.bearer.sub].blog_id
        /\ ~result.valid => result = InvalidResult
        /\ ValidateTokenResult(FALSE, out.resp) = InvalidResult

\* A credential /token issued is reported valid with its session's token.
C15_Witness ==
    /\ out.op = "validate" /\ out.pc = "sent"
    /\ out.bearer \in issued
    /\ ValidateTokenResult(TRUE, out.resp).valid
    /\ ValidateTokenResult(TRUE, out.resp).wordpress_token = UpstreamToken(out.bearer.sub)

\* C16: in a flow run step by step within the expiry periods, with nothing in
\* between, every step succeeds and hands on what the next one needs:
\* /authorize redirects; /callback with the live state stores a session with
\* the upstream's token T and hands back a code bound to it; /token with that
\* live code and the verifier hands back a credential naming that session;
\* /validate with that credential, credential and session unexpired, reports
\* valid with the token T of that very callback.
C16_FlowEndsValid ==
    [][/\ (out'.op = "authorize" /\ out'.pc = "sent") => out'.resp.status = 302
       /\ (/\ out'.op = "callback" /\ out'.pc = "sent"
           /\ out'.state \in DOMAIN pendingStates
           /\ pendingStates[out'.state].expires_at > now)
             => /\ out'.resp.status \in {200, 302} /\ out'.resp.code \in DOMAIN codesFile'
                /\ LET data == codesFile'[out'.resp.code] IN
                   /\ data.code_challenge = pendingStates[out'.state].code_challenge
                   /\ data.token_id = nextId - 1
                   /\ data.token_id \in DOMAIN tokensFile'
                   /\ tokensFile'[data.token_id].wordpress_token
                         = UpstreamToken(nextId - 1)
       /\ (/\ out'.op = "token" /\ out'.pc = "sent"
           /\ out'.code \in DOMAIN codesFile
           /\ codesFile[out'.code].expires_at > now)
             => /\ out'.resp.status = 200
                /\ out'.resp.sub = codesFile[out'.code].token_id
                /\ JwtOf(out'.resp) \in issued'
       /\ (/\ out'.op = "validate" /\ out'.pc = "sent"
           /\ now < out'.bearer.exp
           /\ out'.bearer.sub \in DOMAIN tokensFile
           /\ tokensFile[out'.bearer.sub].expires_at > now)
             => LET result == ValidateTokenResult(TRUE, out'.resp) IN
                /\ result.valid
                /\ result.wordpress_token = UpstreamToken(out'.bearer.sub)]_vars

\* The second flow has run to its end: its credential is reported valid with
\* the token the upstream handed to the second callback.
C16_Witness ==
    /\ out.op = "validate" /\ out.pc = "sent" /\ out.bearer.sub = 2
    /\ ValidateTokenResult(TRUE, out.resp).valid
    /\ ValidateTokenResult(TRUE, out.resp).wordpress_token = UpstreamToken(2)
    /\ redeemed = {1, 2}

\* The sessions of the store that have not expired.
LiveSessions == {id \in DOMAIN tokensFile : tokensFile[id].expires_at > now}

\* C17: /current-token, once past the guard, answers 404 when the store holds
\* no unexpired session, and otherwise returns an unexpired session whose
\* expires_at no other unexpired session exceeds; it never returns an expired
\* one.
C17_LatestLiveSession ==
    (out.op = "current-token" /\ out.pc = "sent" /\ out.ip = NoVal) =>
        IF LiveSessions = {}
        THEN out.resp.status = 404
        ELSE /\ out.resp.status = 200
             /\ \E id \in LiveSessions :
                   /\ out.tok = tokensFile[id]
                   /\ out.resp.wp = tokensFile[id].wordpress_token
                   /\ out.resp.exp = tokensFile[id].expires_at
                   /\ \A o \in LiveSessions :
                         tokensFile[o].expires_at <= tokensFile[id].expires_at

\* Of two unexpired sessions the later-expiring one is returned.
C17_Witness ==
    /\ out.op = "current-token" /\ out.pc = "sent"
    /\ LiveSessions = {1, 2}
    /\ tokensFile[1].expires_at < tokensFile[2].expires_at
    /\ out.resp.status = 200 /\ out.tok = tokensFile[2]

(***************************************************************************)
(* Persistence.                                                            *)
(***************************************************************************)
\* Handler record 1 takes a step from position pc of a request for op.
Resumes(op, pc) == req[1].op = op /\ req[1].pc = pc /\ req'[1] # req[1]

\* C18: a store file that cannot be read counts as an empty store, and no
\* error reaches the client: the lookup of the session or of the code finds
\* nothing whatever the file holds, so that /current-token answers 404,
\* /token 400 invalid_grant, /validate 401, /wordpress-token 404, and no
\* answer given on such a read is a 5xx.
C18_UnreadableIsEmpty ==
    [][/\ (Resumes("current-token", "ctRead") /\ ReadFails("tokens"))
             => out'.pc = "sent" /\ out'.resp.status = 404
       /\ (Resumes("token", "gaRead") /\ ReadFails("codes"))
             => out'.pc = "sent" /\ out'.resp = Resp(400, "invalid_grant")
       /\ (Resumes("token", "gtRead") /\ ReadFails("tokens"))
             => out'.pc = "sent" /\ out'.resp = Resp(400, "invalid_grant")
       /\ (Resumes("validate", "vRead") /\ ReadFails("tokens"))
             => out'.pc = "sent" /\ out'.resp.status = 401
       /\ (Resumes("wordpress-token", "wcRead") /\ ReadFails("codes"))
             => out'.pc = "sent" /\ out'.resp.status = 404
       /\ (Resumes("wordpress-token", "wtRead") /\ ReadFails("tokens"))
             => out'.pc = "sent" /\ out'.resp.status = 404
       /\ (req'[1] # req[1] /\ unreadable # {} /\ out'.pc = "sent"
              /\ out'.op \in {"current-token", "token", "validate", "wordpress-token"})
             => out'.resp.status < 500]_vars

\* /token is answered invalid_grant for a code the unreadable file holds,
\* presented with its verifier.
C18_Witness ==
    /\ out.op = "token" /\ out.pc = "sent" /\ out.resp = Resp(400, "invalid_grant")
    /\ "codes" \in unreadable
    /\ out.code \in DOMAIN codesFile
    /\ S256(out.verifier) = codesFile[out.code].code_challenge

\* C19: the stores outlive the process.  A restart leaves both store files as
\* they are and empties the pending-state registry and the rate table; a
\* stored session stays in the store until it expires, restarts or not; and
\* as long as it has not expired, /validate (for an unexpired credential) and
\* /current-token return it.
C19_StoresSurviveRestart ==
    [][/\ bootedAt' # bootedAt
             => /\ tokensFile' = tokensFile /\ codesFile' = codesFile
                /\ pendingStates' = EmptyMap /\ mcpRateLimit' = EmptyMap
       /\ \A id \in DOMAIN tokensFile :
             tokensFile[id].expires_at > now'
                => id \in DOMAIN tokensFile' /\ tokensFile'[id] = tokensFile[id]
       /\ (/\ out'.op = "validate" /\ out'.pc = "sent"
           /\ now < out'.bearer.exp
           /\ out'.bearer.sub \in DOMAIN tokensFile
           /\ tokensFile[out'.bearer.sub].expires_at > now)
             => /\ out'.resp.status = 200
                /\ out'.resp.wp = tokensFile[out'.bearer.sub].wordpress_token
       /\ (/\ out'.op = "current-token" /\ out'.pc = "sent" /\ out'.ip = NoVal
           /\ \E id \in DOMAIN tokensFile : tokensFile[id].expires_at > now)
             => /\ out'.resp.status = 200
                /\ out'.tok.id \in DOMAIN tokensFile
                /\ out'.tok = tokensFile[out'.tok.id]]_vars

\* After a restart /current-token returns a session stored before it, the
\* rate table having started anew within the window.
C19_Witness ==
    /\ out.op = "current-token" /\ out.pc = "sent" /\ out.resp.status = 200
    /\ out.tok.expires_at - SessionTTL < bootedAt
    /\ Len(Admitted(McpServerIP)) > Len(StoredRequests(RateKey(McpServerIP)))

\* C20: deleteAuthCode writes the whole file from what its handler read: its
\* write leaves exactly the handler's copy less its own code, whatever has
\* been written since the read.  Two redemptions of two different codes that
\* both read before either writes therefore both answer with a credential
\* and leave the code of the earlier writer in the store.
C20_LastWriteWins ==
    [][\A r \in Req :
          (req[r].op = "token" /\ req[r].pc = "daWrite" /\ req'[r].pc = "idle")
             => /\ codesFile' = req[r].snap
                /\ req[r].code \notin DOMAIN codesFile']_vars

\* Both codes have been redeemed, either with its credential, no handler is
\* running, and one of the codes is still in the store.
C20_Witness ==
    /\ AllIdle
    /\ redeemed = {1, 2}
    /\ {jwt.sub : jwt \in issued} = {1, 2}
    /\ DOMAIN codesFile \cap {1, 2} # {}

(***************************************************************************)
(* Termination.                                                            *)
(***************************************************************************)
\* C21: every /callback that passed the state check is answered in the end,
\* whatever the upstream does.
C21_CallbackAnswered ==
    (req[1].op = "callback" /\ req[1].pc # "idle") ~> (req[1].pc = "idle")

(***************************************************************************)
(* The sweep.                                                              *)
(***************************************************************************)
\* The step is one of the clock: no handler moves, nothing is answered.
ClockStep == req' = req /\ out' = NoOut

\* C22: the sweep removes only entries whose expires_at lies before the time
\* it runs at and leaves the others as they are; and a callback in flight is
\* not touched by it: the handler keeps the entry it read when it started,
\* an upstream failure ends in 500 and an upstream answer in the success
\* response, with the session stored as built and the code handed back stored
\* with the challenge read at the start, whether or not the sweep has removed
\* the state meanwhile.
C22_SweepHarmless ==
    [][/\ ClockStep =>
             \A s \in DOMAIN pendingStates :
                IF s \in DOMAIN pendingStates'
                THEN pendingStates'[s] = pendingStates[s]
                ELSE pendingStates[s].expires_at < nextSweep' - SweepInterval
       /\ ClockStep => DOMAIN pendingStates' \subseteq DOMAIN pendingStates
       /\ (req[1].op = "callback" /\ req'[1].op = "callback")
             => req'[1].stateData = req[1].stateData /\ req'[1].state = req[1].state
       /\ (req[1].pc = "fetch" /\ req'[1].pc = "idle")
             => out'.resp.status = 500
       /\ (req[1].pc = "acWrite" /\ req'[1].pc = "idle")
             => /\ out'.op = "callback" /\ out'.resp.status \in {200, 302}
                /\ out'.resp.code \in DOMAIN codesFile'
                /\ codesFile'[out'.resp.code].code_challenge
                      = out'.stateData.code_challenge
                /\ codesFile'[out'.resp.code].token_id = out'.tok.id
                /\ out'.tok.id \in DOMAIN tokensFile'
                /\ tokensFile'[out'.tok.id] = out'.tok
                /\ out'.tok.wordpress_token = UpstreamToken(out'.tok.id)]_vars

\* A callback has succeeded although a sweep that ran before its answer found
\* its state expired.
C22_Witness ==
    /\ out.op = "callback" /\ out.pc = "sent" /\ out.resp.status \in {200, 302}
    /\ (out.stateData.expires_at \div SweepInterval + 1) * SweepInterval < now
    /\ out.stateData.expires_at + Quantum > out.tok.expires_at - SessionTTL

(***************************************************************************)
(* Persistence and responses.                                              *)
(***************************************************************************)
\* C23: a response is sent only once the step's persistence is complete: when
\* /token sends its success response the redeemed code is no longer in the
\* code store, and when /callback hands a code back the code and the session
\* it names are in their stores.
C23_PersistedBeforeAnswer ==
    /\ (out.op = "token" /\ out.pc = "sent" /\ out.resp.status = 200)
          => out.code \notin DOMAIN codesFile
    /\ (out.op = "callback" /\ out.pc = "sent" /\ out.resp.status \in {200, 302})
          => /\ out.resp.code \in DOMAIN codesFile
             /\ out.tok.id \in DOMAIN tokensFile

\* C24: a stored session never changes: on every step, a session of the store
\* either stays in it exactly as it was, or leaves it, and it leaves it only
\* once it has expired.
C24_SessionImmutable ==
    [][\A id \in DOMAIN tokensFile :
          IF id \in DOMAIN tokensFile'
          THEN tokensFile'[id] = tokensFile[id]
          ELSE tokensFile[id].expires_at <= now']_vars

(***************************************************************************)
(* Failed requests.                                                        *)
(***************************************************************************)
\* The entries of store m that have not expired at time t.
LiveOf(m, t) == [k \in {k \in DOMAIN m : m[k].expires_at > t} |-> m[k]]

\* With these stores at time t, code c and verifier v do not redeem: the code
\* is unknown or expired, the verifier hashes to another challenge, or the
\* session is absent.
RefusedIn(codes, tokens, t, c, v) ==
    \/ c \notin DOMAIN LiveOf(codes, t)
    \/ S256(v) # codes[c].code_challenge
    \/ codes[c].token_id \notin DOMAIN LiveOf(tokens, t)

C26_MissingVerifierIs400 ==
    [][(/\ out'.op = "token" /\ out'.pc = "sent"
        /\ out'.resp.body # "unsupported_grant_type"
        /\ out'.verifier = NoVal
        /\ out'.code \in DOMAIN LiveOf(codesFile, now))
          => /\ out'.resp.status = 400
             /\ tokensFile' = tokensFile /\ codesFile' = codesFile]_vars

C29_AuthorizeRegistersOne ==
    [][(out'.op = "authorize" /\ out'.pc = "sent") =>
          IF out'.challenge # NoVal /\ out'.method = "S256"
          THEN /\ out'.resp.status = 302
               /\ out'.resp.state = out'.state
               /\ DOMAIN pendingStates' = DOMAIN pendingStates \cup {out'.state}
               /\ pendingStates'[out'.state] =
                     [code_challenge |-> out'.challenge,
                      expires_at |-> now' + 600 * 1000]
               /\ \A s \in DOMAIN pendingStates \ {out'.state} :
                     pendingStates'[s] = pendingStates[s]
          ELSE out'.resp.status # 302]_vars

\* A state registered before has been registered again with the second
\* challenge (only a registered state is asked for with it), beside an older
\* entry of another state.
C29_Witness ==
    /\ out.op = "authorize" /\ out.pc = "sent" /\ out.resp.status = 302
    /\ out.challenge = CodeChallenge("v2")
    /\ now > 0
    /\ pendingStates[out.state].code_challenge = CodeChallenge("v2")
    /\ \E s \in DOMAIN pendingStates :
          s # out.state /\ pendingStates[s].expires_at < now + 600 * 1000

(***************************************************************************)
(* What a callback creates.                                                *)
(***************************************************************************)
\* The steps of a callback that create its session and its code: the handler
\* holds the entry registered with its state; the session it builds when the
\* exchange has answered expires 3600 seconds after that moment; the code
\* storeAuthCode builds expires 600 seconds after its own moment and carries
\* the session's id and that entry's challenge; both are stored as built.
CallbackCreates ==
    /\ (req[1].pc = "idle" /\ req'[1].pc = "fetch")
          => req'[1].stateData = pendingStates[req'[1].state]
    /\ (req[1].pc = "fetch" /\ req'[1].pc = "stRead")
          => req'[1].tok.expires_at = now' + 3600 * 1000
    /\ (req[1].pc \in {"acRead", "acClean"} /\ req'[1].pc = "acWrite")
          => /\ req'[1].authCode \in DOMAIN req'[1].snap
             /\ req'[1].snap[req'[1].authCode] =
                   [token_id |-> req[1].tok.id,
                    code_challenge |-> req[1].stateData.code_challenge,
                    expires_at |-> now' + 600 * 1000]
    /\ (req[1].pc = "acWrite" /\ req'[1].pc = "idle")
          => /\ out'.resp.code = req[1].authCode
             /\ codesFile'[out'.resp.code] = req[1].snap[req[1].authCode]
             /\ tokensFile'[out'.tok.id] = req[1].tok

\* The session of the code a callback has just handed back, built at that time.
SessionBuiltAt == out'.tok.expires_at - 3600 * 1000

\* C30 as stated: a callback creates its session and its code as above, and the
\* code handed back always expires no later than the session it names.
C30_CodeExpiresFirst ==
    [][/\ CallbackCreates
       /\ (req[1].pc = "acWrite" /\ req'[1].pc = "idle")
             => codesFile'[out'.resp.code].expires_at <= out'.tok.expires_at]_vars

\* C30, amended: a callback creates its session and its code as above, and the
\* code handed back expires no later than the session it names whenever the
\* callback answers within 3000 seconds of building the session.
C30_CodeExpiresFirstWhenPrompt ==
    [][/\ CallbackCreates
       /\ (/\ req[1].pc = "acWrite" /\ req'[1].pc = "idle"
           /\ now' - SessionBuiltAt <= 3000 * 1000)
             => codesFile'[out'.resp.code].expires_at <= out'.tok.expires_at]_vars

\* A callback has answered within that time, its code built later than its
\* session and expiring before it.
C30_Witness ==
    /\ out.op = "callback" /\ out.pc = "sent" /\ out.resp.status \in {200, 302}
    /\ out.resp.code \in DOMAIN codesFile
    /\ codesFile[out.resp.code].expires_at - 600 * 1000
          > out.tok.expires_at - 3600 * 1000
    /\ codesFile[out.resp.code].expires_at < out.tok.expires_at

(***************************************************************************)
(* Confidentiality.                                                        *)
(***************************************************************************)
\* C27: with DISABLE_CONFIDENTIALITY_CHECK unset, a tool call that names a
\* *.wordpress.com blog has called the WordPress API only if
\* checkBlogConfidentiality reported the sticker for that blog, and has ended
\* in the confidentiality error whenever the check reported otherwise or was
\* not performed.
C27_NoRequestWithoutSticker ==
    (/\ call.pc = "done"
     /\ disableConfidentialityCheck = NoVal
     /\ IncludesWordpressCom(call.arg))
       => /\ call.sent => call.reported = "true"
          /\ call.reported # "true" => call.result = "confidentiality error"

(***************************************************************************)
(* The pending state of a callback.                                        *)
(***************************************************************************)
\* Handler r, a callback past the state check, returns on this step.
CallbackCompletes(r) == req[r].op = "callback" /\ req[r].pc # "idle" /\ req'[r].pc = "idle"

\* C31: a callback that passed the state check leaves the registry without its
\* state when it completes, whether it answers with the code (200 or 302) or
\* with the failure of the exchange (500); the state is then unknown to the
\* state check until an /authorize registers it again.
C31_CallbackConsumesState ==
    [][\A r \in Req :
          CallbackCompletes(r)
             => /\ out'.op = "callback" /\ out'.state = req[r].state
                /\ out'.resp.status \in {200, 302, 500}
                /\ req[r].state \notin DOMAIN pendingStates'
                /\ Get(pendingStates', req[r].state) = NoStateData
                /\ req[r].state \in consumed']_vars

\* A callback whose exchange threw has completed, and its state, which was
\* registered when it arrived, is gone.
C31_Witness ==
    /\ out.op = "callback" /\ out.pc = "sent" /\ out.resp.status = 500
    /\ out.stateData.code_challenge # NoVal
    /\ out.tok = NoToken
    /\ out.state \notin DOMAIN pendingStates

\* C32: a registration leaves the registry only when the sweep finds it
\* expired, or when a callback that read this very registration at its state
\* check completes; the completion of a callback that read an earlier
\* registration of the same state value does not remove it.
C32_RegistrationStays ==
    [][\A s \in DOMAIN pendingStates \ DOMAIN pendingStates' :
          \/ ClockStep /\ pendingStates[s].expires_at < now'
          \/ \E r \in Req : /\ CallbackCompletes(r)
                             /\ req[r].state = s
                             /\ req[r].stateData = pendingStates[s]]_vars

(***************************************************************************)
(* The stores under overlapping requests.                                  *)
(***************************************************************************)
\* C33: no dangling code: every unexpired code of the code store (a code is
\* stored on the step that hands it back) names a session that is in the
\* session store.
C33_NoDanglingCode ==
    \A c \in DOMAIN codesFile :
        codesFile[c].expires_at > now => codesFile[c].token_id \in DOMAIN tokensFile

\* The awaits of the clean-up write that loadTokens makes during a read.
ReadCleans == {"vClean", "gtClean", "ctClean", "wtClean"}

\* C34: the clean-up write of a read loses no live session: on the step on
\* which it lands, every unexpired session of the store, whichever request
\* stored it and whenever, is still in the store.
C34_ReadKeepsLiveSessions ==
    [][\A r \in Req :
          (req[r].pc \in ReadCleans /\ req'[r] # req[r])
             => \A id \in DOMAIN LiveOf(tokensFile, now) : id \in DOMAIN tokensFile']_vars

LetsThrough(ip) ==
    /\ ip \in DOMAIN admitted' /\ now' = now
    /\ Len(admitted'[ip]) = Len(Admitted(ip)) + 1

\* C36: the list of every address in the rate table holds at most 10
\* timestamps, and right after a request of an address is let through every
\* timestamp of its list, the new one included, is less than 60 s old.
C36_TableBounded ==
    [][/\ \A k \in DOMAIN mcpRateLimit' : Len(mcpRateLimit'[k]) <= RateLimit
       /\ \A ip \in ClientIPs :
             LetsThrough(ip) =>
                /\ RateKey(ip) \in DOMAIN mcpRateLimit'
                /\ LET list == mcpRateLimit'[RateKey(ip)] IN
                      /\ list[Len(list)] = now'
                      /\ \A i \in 1 .. Len(list) :
                            list[i] <= now' /\ now' - list[i] < RateWindow]_vars

\* A request has just been let through and fills the list of its address,
\* which holds timestamps of an earlier instant too.
C36_Witness ==
    /\ \E r \in Req : req[r].op \in GuardedOps /\ req[r].pc # "idle"
    /\ \E ip \in Loopback :
          /\ RateKey(ip) \in DOMAIN mcpRateLimit
          /\ LET list == mcpRateLimit[RateKey(ip)] IN
                Len(list) = RateLimit /\ list[1] < now /\ list[RateLimit] = now

(***************************************************************************)
(* What a refused /callback tells its caller.                              *)
(***************************************************************************)
\* C37: the answer to a /callback refused for its state is the same whatever
\* the registry holds: status 400 and a fixed page, naming no pending state.
C37_RefusalDisclosesNothing ==
    StateRefused(out) => out.resp = Resp(400, "Invalid State Error")

(***************************************************************************)
(* The two routers.                                                        *)
(***************************************************************************)
\* The stores of the two routers hold the same sessions and the same codes.
SameStores ==
    /\ DOMAIN tokensFile = DOMAIN webApp.tokens
    /\ \A id \in DOMAIN tokensFile : tokensFile[id] = webApp.tokens[id]
    /\ DOMAIN codesFile = DOMAIN webApp.authCodes
    /\ \A c \in DOMAIN codesFile :
          /\ codesFile[c].token_id = webApp.authCodes[c].token_id
          /\ codesFile[c].code_challenge = webApp.authCodes[c].code_challenge

\* C38: served the same requests one after the other, with nothing expiring
\* and the files readable and writable, the file-backed router answers every
\* request with the status the in-memory router answered it with, and once
\* the handlers of a request have returned the two hold the same sessions and
\* the same codes.
C38_RoutersAgree ==
    /\ (webApp.turn = "file" /\ out.pc = "sent") => out.resp.status = webApp.last.status
    /\ (webApp.turn = "web" /\ AllIdle) => SameStores

\* The file-backed router has just answered the request the in-memory router
\* answered before it.
FileAnswered == webApp.turn = "file" /\ out.pc = "sent"

\* A /callback with a browser's User-Agent that the in-memory router took
\* through the upstream exchange and answered with the mcp:// redirect.
BrowserCallback(l) == l.op = "callback" /\ l.browser /\ l.status = 302

\* C38, but for the page: the two routers hold the same sessions and codes
\* after every request, and answer every request with the same status except
\* a completed /callback of a browser, which the in-memory router redirects
\* (302) and the file-backed router answers with its page (200; 500 when the
\* upstream body carried no access token).
C38_RoutersAgreeButForThePage ==
    /\ FileAnswered =>
          IF BrowserCallback(webApp.last)
          THEN out.resp.status = (IF out.tok.wordpress_token = NoVal THEN 500 ELSE 200)
          ELSE out.resp.status = webApp.last.status
    /\ ((webApp.turn = "web" \/ FileAnswered) /\ AllIdle) => SameStores

\* Both routers have answered 200 to the /validate that ends a flow whose
\* /callback came from a browser.
C38_Witness ==
    /\ FileAnswered /\ out.op = "validate" /\ out.resp.status = 200
    /\ webApp.last.status = 200
    /\ DOMAIN tokensFile = {1} /\ codesFile = EmptyMap /\ webApp.authCodes = EmptyMap

(***************************************************************************)
(* The sticker look-up.                                                    *)
(***************************************************************************)
\* The look-ups that succeed: a 2xx answer whose body is a list.
StickerLists == {"sticker", "nosticker"}

\* C39: checkBlogConfidentiality fails closed and caches only successful
\* look-ups.  With the check enabled, a call is answered from the cache, with
\* no upstream request, exactly while the entry of its blog is less than 5
\* minutes old; an upstream look-up reports the sticker only when the list it
\* got holds it; a look-up that got a list caches the answer at the current
\* instant; any other (a non-2xx answer, an exception) reports false and
\* leaves the cache as it was.
C39_FailsClosedCachesSuccess ==
    [][/\ (call'.pc = "stickers" /\ call' # call)
             => /\ disableConfidentialityCheck # "true"
                /\ ~CacheFresh(call'.site)
                /\ blogStickersCache' = blogStickersCache
       /\ (call'.pc = "done" /\ call' # call /\ call.pc # "stickers"
              /\ call'.reported # NoVal /\ disableConfidentialityCheck # "true")
             => /\ CacheFresh(call'.site)
                /\ call'.reported = Reported(blogStickersCache[call'.site].stickers)
                /\ blogStickersCache' = blogStickersCache
       /\ (call.pc = "stickers" /\ call'.pc = "done")
             => /\ call'.reported = "true" => call'.fetched = "sticker"
                /\ IF call'.fetched \in StickerLists
                   THEN blogStickersCache' =
                           Put(blogStickersCache, call.site,
                               [stickers |-> call'.fetched = "sticker", timestamp |-> now])
                   ELSE /\ call'.reported = "false"
                        /\ blogStickersCache' = blogStickersCache]_vars

(***************************************************************************)
(* The background token of the MCP server.                                 *)
(***************************************************************************)
\* The call that has just returned found a usable token in the cache.
FoundFresh(m) == m.before.parses /\ m.before.expires_at > m.at

\* What holds of every returned call, whatever became of the cache write: a
\* fresh cached token is returned with nothing asked of the auth server and
\* the cache untouched; otherwise a token is returned only with the server
\* up, the secret configured and /current-token having answered with that
\* token; without the secret /current-token is not requested; a call that
\* returns null leaves the cache as it found it.
ReturnsAsItShould(m) ==
    /\ m.secret = NoVal => ~m.asked
    /\ IF FoundFresh(m)
       THEN /\ m.result = m.before.wordpress_token /\ m.result # NoVal
            /\ ~m.asked /\ m.cache = m.before
       ELSE IF m.result # NoVal
       THEN /\ m.up /\ m.secret # NoVal /\ m.asked
            /\ CarriesToken(m.answer) /\ m.result = m.tokenData.wordpress_token
       ELSE m.cache = m.before

\* C40 as stated: a token fetched from /current-token is in the cache when the
\* call returns it.
C40_FetchedTokenCached ==
    mcpAuth.pc = "done" =>
       /\ ReturnsAsItShould(mcpAuth)
       /\ (~FoundFresh(mcpAuth) /\ mcpAuth.result # NoVal)
             => mcpAuth.cache = mcpAuth.tokenData

\* C40, with the cache write allowed to fail: getBackgroundToken returns a
\* cached token only while its expires_at is strictly in the future, then
\* without asking the auth server; otherwise it returns a token only if the
\* server is up, the secret is configured and /current-token answered with a
\* token, which is in the cache afterwards when the cache file could be
\* written and which leaves the cache as it was when it could not; in every
\* other case it returns null and leaves the cache unchanged.
C40_FetchedTokenCachedIfWritten ==
    mcpAuth.pc = "done" =>
       /\ ReturnsAsItShould(mcpAuth)
       /\ (~FoundFresh(mcpAuth) /\ mcpAuth.result # NoVal)
             => mcpAuth.cache = (IF mcpAuth.saved THEN mcpAuth.tokenData
                                 ELSE mcpAuth.before)

\* A call that found the cached token at its expiry instant has fetched
\* another and cached it.
C40_Witness ==
    /\ mcpAuth.pc = "done" /\ mcpAuth.before.parses
    /\ mcpAuth.before.expires_at = mcpAuth.at
    /\ mcpAuth.result # NoVal /\ mcpAuth.saved
    /\ mcpAuth.cache = mcpAuth.tokenData /\ mcpAuth.cache # mcpAuth.before

====
